---- MODULE Spec2Model ----
(***************************************************************************)
(* Notification dispatch pipeline of unimate-backend: provider clients     *)
(* (APNs, FCM), the push router, the Bull job queues, the dispatch worker, *)
(* the device registry and the delivery log.                               *)
(***************************************************************************)
EXTENDS Integers, Sequences, FiniteSets, TLC

VARIABLES
  apnProvider,   \* APNsService.apnProvider is non-null
  apnsConfig,    \* APNsConfigService.getConfig() is non-null
  fcmConfig,     \* FCMConfigService.getConfig(): "none" (null), "v1" or "legacy"
  fcmEndpoint,   \* FCMService.fcmEndpoint is non-null
  authClient,    \* FCMService.authClient is non-null
  last,          \* the router / client call that completed last, with what it returned
  jobs,          \* the jobs of the Bull queues, by job id
  nextJobId,     \* the id the next enqueued job gets
  handler,       \* per job: the position of processNotificationJob and its locals
  registry,      \* the rows of the devices table
  logs,          \* the rows of the notification_logs table, in insertion order
  stalls,        \* how many times the stall detector has returned a job to its queue
  clock,         \* the time new Date() reads, in ticks
  registering,   \* per caller: the position of its registerToken call and its locals
  broker,        \* whether the Redis broker of the queues can be reached: "up" or "down"
  adding,        \* the queue.add call in progress: its job and how long it has waited
  flight         \* the sendToTokens call followed send by send: its chunk and unsettled sends

cfgVars == <<apnProvider, apnsConfig, fcmConfig, fcmEndpoint, authClient>>
workerVars == <<jobs, nextJobId, handler, registry, logs, stalls>>
extraVars == <<clock, registering, broker, adding, flight>>
vars == <<apnProvider, apnsConfig, fcmConfig, fcmEndpoint, authClient, last,
          jobs, nextJobId, handler, registry, logs, stalls,
          clock, registering, broker, adding, flight>>

----------------------------------------------------------------------------
(* Bounds of the model *)

MaxDevices == 3      \* longest device / token list drawn as an input (small lists)

MaxJobTokens == 2    \* most tokens in an enqueued job

MaxStalls == 1       \* most times the stall detector fires in one behaviour

(* Program constants *)

batchSize == 500     \* tokens per chunk in both provider clients

attempts == 3        \* defaultJobOptions.attempts of the three queues

----------------------------------------------------------------------------
(* Inputs *)

Platforms == {"ios", "android", "web"}

\* What the push provider answers for one token.
Outcomes == {"ok", "gone", "busy", "bad"}

Min(a, b) == IF a < b THEN a ELSE b

\* The element of a one-element set; {f(x) : x \in {e}} computes e once.
The(S) == CHOOSE x \in S : TRUE

Range(s) == {s[k] : k \in 1..Len(s)}

\* The list 1, 2, ..., n of n distinct tokens.
Iota(n) == [k \in 1..n |-> k]

\* Small token lists: n distinct tokens, or one token repeated n times.
SmallTokenLists ==
  {Iota(n) : n \in 0..MaxDevices} \cup {[k \in 1..n |-> 1] : n \in 2..MaxDevices}

\* Lists long enough to need more than one chunk.
BigTokenLists ==
  {Iota(n) : n \in {batchSize, batchSize + 100, 2 * batchSize + 1}}

\* Device lists: tokens as in SmallTokenLists, every platform labelling.
DeviceLists ==
  UNION {{[k \in 1..Len(ts) |-> [token |-> ts[k], platform |-> ps[k]]] :
            ps \in [1..Len(ts) -> Platforms]} : ts \in SmallTokenLists}

\* Offsets at which the chunk loop of a provider client starts a chunk.
ChunkStarts(tokens) == {i \in 0..(Len(tokens) - 1) : i % batchSize = 0}

\* The provider's answers during one call: an outcome per token (out), the chunks
\* whose provider call rejects with a transport error (thr, by start offset),
\* whether the OAuth2 access token can be fetched (auth), and whether the client
\* throws while sending (boom).
OutcomeMaps(tokens) ==
  IF Len(tokens) <= MaxDevices
    THEN [Range(tokens) -> Outcomes]
    ELSE {[t \in Range(tokens) |-> IF t % 2 = 1 THEN o1 ELSE o2] :
            o1 \in Outcomes, o2 \in Outcomes}

AllOk(tokens) == [t \in Range(tokens) |-> "ok"]

Envs(tokens) ==
  [out : OutcomeMaps(tokens), thr : SUBSET ChunkStarts(tokens),
   auth : {TRUE}, boom : {FALSE}]
  \cup [out : {AllOk(tokens)}, thr : {{}}, auth : {FALSE}, boom : {FALSE}]
  \cup [out : {AllOk(tokens)}, thr : {{}}, auth : {TRUE}, boom : {TRUE}]

----------------------------------------------------------------------------
(* Result values (push-message.interface.ts) *)

Success(token) == [success |-> TRUE, token |-> token, code |-> ""]

Failure(token, code) == [success |-> FALSE, token |-> token, code |-> code]

ZeroResult ==
  [deliveredTo |-> 0, failedCount |-> 0, totalDevices |-> 0,
   invalidTokens |-> <<>>, results |-> <<>>]

AllFailed(tokens, code) ==
  [deliveredTo |-> 0, failedCount |-> Len(tokens), totalDevices |-> Len(tokens),
   invalidTokens |-> <<>>,
   results |-> [k \in 1..Len(tokens) |-> Failure(tokens[k], code)]]

\* Variant: a slice that takes one element more.
sliceOneMore(s, a, b) == SubSeq(s, a + 1, Min(b + 1, Len(s)))

\* Array.prototype.slice(a, b)
slice(s, a, b) == SubSeq(s, a + 1, Min(b, Len(s)))

\* Variant: a test that takes a bad request for an invalid token too.
isInvalidCodeOrBadRequest(code) ==
  code = "invalid_token" \/ code = "unregistered_token" \/ code = "bad_request"

isInvalidCode(code) == code = "invalid_token" \/ code = "unregistered_token"

----------------------------------------------------------------------------
(* APNs client *)

APNsIsConfigured == apnProvider /\ apnsConfig

mapAPNsErrorCode(status) ==
  IF status = 0 THEN "unknown_error"
  ELSE CASE status = 400 -> "bad_request"
         [] status = 403 -> "forbidden"
         [] status = 405 -> "method_not_allowed"
         [] status = 410 -> "unregistered_token"
         [] status = 413 -> "payload_too_large"
         [] status = 429 -> "too_many_requests"
         [] status = 500 -> "server_error"
         [] status = 503 -> "server_error"
         [] OTHER -> "unknown_error"

\* The status APNs reports for a failed token.
APNsStatus(o) ==
  CASE o = "gone" -> 410
    [] o = "busy" -> 429
    [] o = "bad" -> 400
    [] OTHER -> 0

\* A chunk as the loop of a client cut it: its first and last token and its length.
ChunkOf(batch) == [first |-> batch[1], last |-> batch[Len(batch)], len |-> Len(batch)]

\* One iteration of the chunk loop: acc holds results, invalidTokens, deliveredTo and
\* failedCount so far, plus the provider calls made and the chunks gone through.
APNsBatch(acc, batch, i, env) ==
  IF i \in env.thr
    THEN [acc EXCEPT
            !.failedCount = @ + Len(batch),
            !.results = @ \o [k \in 1..Len(batch) |-> Failure(batch[k], "batch_error")],
            !.calls = @ + 1,
            !.rounds = Append(@, ChunkOf(batch))]
    ELSE LET IsSent(t) == env.out[t] = "ok"
             IsFailed(t) == env.out[t] # "ok"
             IsGone(t) == IsFailed(t) /\ isInvalidCode(mapAPNsErrorCode(APNsStatus(env.out[t])))
             sent == SelectSeq(batch, IsSent)
             failed == SelectSeq(batch, IsFailed)
         IN [acc EXCEPT
               !.deliveredTo = @ + Len(sent),
               !.failedCount = @ + Len(failed),
               !.invalidTokens = @ \o SelectSeq(batch, IsGone),
               !.results = @ \o [k \in 1..Len(sent) |-> Success(sent[k])]
                             \o [k \in 1..Len(failed) |->
                                   Failure(failed[k], mapAPNsErrorCode(APNsStatus(env.out[failed[k]])))],
               !.calls = @ + 1,
               !.rounds = Append(@, ChunkOf(batch))]

\* Variant: a loop that gives up at the first chunk whose provider call throws,
\* failing every token from there on.
RECURSIVE APNsLoopAbort(_, _, _, _)
APNsLoopAbort(tokens, i, acc, env) ==
  IF i < Len(tokens)
    THEN IF i \in env.thr
           THEN [acc EXCEPT
                   !.failedCount = @ + (Len(tokens) - i),
                   !.results = @ \o [k \in 1..(Len(tokens) - i) |->
                                       Failure(tokens[i + k], "batch_error")],
                   !.calls = @ + 1,
                   !.rounds = Append(@, ChunkOf(slice(tokens, i, i + batchSize)))]
           ELSE APNsLoopAbort(tokens, i + batchSize,
                              APNsBatch(acc, slice(tokens, i, i + batchSize), i, env), env)
    ELSE acc

RECURSIVE APNsLoop(_, _, _, _)
APNsLoop(tokens, i, acc, env) ==
  IF i < Len(tokens)
    THEN APNsLoop(tokens, i + batchSize,
                  APNsBatch(acc, slice(tokens, i, i + batchSize), i, env), env)
    ELSE acc

EmptyAcc ==
  [deliveredTo |-> 0, failedCount |-> 0, invalidTokens |-> <<>>, results |-> <<>>,
   calls |-> 0, rounds |-> <<>>]

\* What a client call yields: the value returned, the number of provider requests
\* it issued (calls) and the chunks its loop went through (rounds).
ClientReturn(ret, calls, rounds) ==
  [threw |-> FALSE, ret |-> ret, calls |-> calls, rounds |-> rounds]

ClientThrow == [threw |-> TRUE, ret |-> ZeroResult, calls |-> 0, rounds |-> <<>>]

AccResult(tokens, acc) ==
  [deliveredTo |-> acc.deliveredTo, failedCount |-> acc.failedCount,
   totalDevices |-> Len(tokens), invalidTokens |-> acc.invalidTokens,
   results |-> acc.results]

\* Variant: an APNs client that sends without looking at its provider.
APNsSendToTokensUnguarded(tokens, env) ==
  IF Len(tokens) = 0
    THEN ClientReturn(AllFailed(tokens, "apns_not_configured"), 0, <<>>)
  ELSE IF env.boom THEN ClientThrow
  ELSE The({ClientReturn(AccResult(tokens, acc), acc.calls, acc.rounds) :
              acc \in {APNsLoop(tokens, 0, EmptyAcc, env)}})

APNsSendToTokens(tokens, env) ==
  IF ~apnProvider \/ Len(tokens) = 0
    THEN ClientReturn(AllFailed(tokens, "apns_not_configured"), 0, <<>>)
  ELSE IF env.boom THEN ClientThrow
  ELSE IF ~apnsConfig
    THEN ClientReturn(AllFailed(tokens, "apns_not_configured"), 0, <<>>)
  ELSE The({ClientReturn(AccResult(tokens, acc), acc.calls, acc.rounds) :
              acc \in {APNsLoop(tokens, 0, EmptyAcc, env)}})

----------------------------------------------------------------------------
(* FCM client *)

FCMIsConfigured == fcmEndpoint /\ fcmConfig # "none"

\* Variant: a classification that consults the body status before the HTTP status.
mapFCMErrorCodeBodyFirst(status, errorCode) ==
  IF errorCode = "INVALID_ARGUMENT" THEN "invalid_token"
  ELSE IF errorCode = "NOT_FOUND" THEN "unregistered_token"
  ELSE IF errorCode = "PERMISSION_DENIED" THEN "forbidden"
  ELSE IF errorCode = "UNAUTHENTICATED" THEN "unauthorized"
  ELSE IF errorCode = "RESOURCE_EXHAUSTED" THEN "too_many_requests"
  ELSE IF status = 400 THEN "bad_request"
  ELSE IF status = 401 THEN "unauthorized"
  ELSE IF status = 403 THEN "forbidden"
  ELSE IF status = 404 THEN "invalid_token"
  ELSE IF status = 429 THEN "too_many_requests"
  ELSE IF status >= 500 THEN "server_error"
  ELSE "unknown_error"

\* mapFCMErrorCode(error): status is error.response.status (0 when absent),
\* errorCode is error.response.data.error.status ("" when absent).
mapFCMErrorCode(status, errorCode) ==
  IF status = 400 THEN "bad_request"
  ELSE IF status = 401 THEN "unauthorized"
  ELSE IF status = 403 THEN "forbidden"
  ELSE IF status = 404 THEN "invalid_token"
  ELSE IF status = 429 THEN "too_many_requests"
  ELSE IF status >= 500 THEN "server_error"
  ELSE IF errorCode = "INVALID_ARGUMENT" THEN "invalid_token"
  ELSE IF errorCode = "NOT_FOUND" THEN "unregistered_token"
  ELSE IF errorCode = "PERMISSION_DENIED" THEN "forbidden"
  ELSE IF errorCode = "UNAUTHENTICATED" THEN "unauthorized"
  ELSE IF errorCode = "RESOURCE_EXHAUSTED" THEN "too_many_requests"
  ELSE "unknown_error"

\* errorMessage.includes(word): a message is the sequence of its words.
includes(errorMessage, word) == word \in Range(errorMessage)

mapLegacyFCMErrorCode(errorMessage) ==
  IF includes(errorMessage, "InvalidRegistration") THEN "invalid_token"
  ELSE IF includes(errorMessage, "NotRegistered") THEN "unregistered_token"
  ELSE IF includes(errorMessage, "MismatchSenderId") THEN "forbidden"
  ELSE IF includes(errorMessage, "InvalidPackageName") THEN "bad_request"
  ELSE "unknown_error"

\* The HTTP answer of the v1 endpoint for one token.
V1Response(o) ==
  CASE o = "ok" -> [status |-> 200, named |-> TRUE, errorCode |-> ""]
    [] o = "gone" -> [status |-> 404, named |-> FALSE, errorCode |-> "NOT_FOUND"]
    [] o = "busy" -> [status |-> 429, named |-> FALSE, errorCode |-> "RESOURCE_EXHAUSTED"]
    [] OTHER -> [status |-> 400, named |-> FALSE, errorCode |-> "INVALID_ARGUMENT"]

\* The HTTP answer of the legacy endpoint for one token.
LegacyResponse(o) ==
  CASE o = "ok" -> [status |-> 200, success |-> 1, reason |-> <<>>]
    [] o = "gone" -> [status |-> 200, success |-> 0, reason |-> <<"NotRegistered">>]
    [] o = "busy" -> [status |-> 429, success |-> 0, reason |-> <<>>]
    [] OTHER -> [status |-> 200, success |-> 0, reason |-> <<"InvalidPackageName">>]

\* A settled promise of one per-token send; posted: an HTTP request was issued.
Fulfilled(value, posted) == [status |-> "fulfilled", value |-> value, posted |-> posted]

sendV1API(token, env) ==
  IF ~authClient THEN Fulfilled(Failure(token, "fcm_not_configured"), FALSE)
  ELSE IF ~env.auth THEN Fulfilled(Failure(token, "auth_error"), FALSE)
  ELSE LET r == V1Response(env.out[token])
       IN IF r.status = 200
            THEN IF r.named THEN Fulfilled(Success(token), TRUE)
                 ELSE Fulfilled(Failure(token, "unknown_error"), TRUE)
            ELSE Fulfilled(Failure(token, mapFCMErrorCode(r.status, r.errorCode)), TRUE)

sendLegacyAPI(token, env) ==
  LET r == LegacyResponse(env.out[token])
  IN IF r.status = 200
       THEN IF r.success = 1 THEN Fulfilled(Success(token), TRUE)
            ELSE Fulfilled(Failure(token,
                   mapLegacyFCMErrorCode(IF r.reason = <<>> THEN <<"Unknown", "error">>
                                         ELSE r.reason)), TRUE)
       ELSE Fulfilled(Failure(token, mapFCMErrorCode(r.status, "")), TRUE)

\* Variant: a fail-fast chunk, in which the sends after the first failed one are
\* dropped.
FCMBatchFailFast(acc, batch, env) ==
  LET settled == [k \in 1..Len(batch) |->
                    IF fcmConfig = "v1" THEN sendV1API(batch[k], env)
                    ELSE sendLegacyAPI(batch[k], env)]
      Bad == {k \in 1..Len(batch) : ~settled[k].value.success}
      kept == IF Bad = {} THEN Len(batch) ELSE CHOOSE k \in Bad : \A m \in Bad : k <= m
      delivered == kept - (IF Bad = {} THEN 0 ELSE 1)
  IN [acc EXCEPT
        !.deliveredTo = @ + delivered,
        !.failedCount = @ + (kept - delivered),
        !.results = @ \o [k \in 1..kept |-> settled[k].value],
        !.calls = @ + kept,
        !.rounds = Append(@, ChunkOf(batch))]

\* Promise.allSettled over the chunk, then the forEach over the settled results.
FCMBatch(acc, batch, env) ==
  LET settled == [k \in 1..Len(batch) |->
                    IF fcmConfig = "v1" THEN sendV1API(batch[k], env)
                    ELSE sendLegacyAPI(batch[k], env)]
      Idx == Iota(Len(batch))
      IsDelivered(k) == settled[k].status = "fulfilled" /\ settled[k].value.success
      IsInvalid(k) == /\ settled[k].status = "fulfilled"
                      /\ ~settled[k].value.success
                      /\ isInvalidCode(settled[k].value.code)
      IsPosted(k) == settled[k].posted
      inv == SelectSeq(Idx, IsInvalid)
      posted == Len(SelectSeq(Idx, IsPosted))
      delivered == Len(SelectSeq(Idx, IsDelivered))
  IN [acc EXCEPT
        !.deliveredTo = @ + delivered,
        !.failedCount = @ + (Len(batch) - delivered),
        !.invalidTokens = @ \o [j \in 1..Len(inv) |-> batch[inv[j]]],
        !.results = @ \o [k \in 1..Len(batch) |->
                            IF settled[k].status = "fulfilled" THEN settled[k].value
                            ELSE Failure(batch[k], "batch_error")],
        !.calls = @ + posted,
        !.rounds = Append(@, ChunkOf(batch))]

RECURSIVE FCMLoop(_, _, _, _)
FCMLoop(tokens, i, acc, env) ==
  IF i < Len(tokens)
    THEN FCMLoop(tokens, i + batchSize,
                 FCMBatch(acc, slice(tokens, i, i + batchSize), env), env)
    ELSE acc

FCMSendToTokens(tokens, env) ==
  IF fcmConfig = "none" \/ ~fcmEndpoint \/ Len(tokens) = 0
    THEN ClientReturn(AllFailed(tokens, "fcm_not_configured"), 0, <<>>)
  ELSE IF env.boom THEN ClientThrow
  ELSE The({ClientReturn(AccResult(tokens, acc), acc.calls, acc.rounds) :
              acc \in {FCMLoop(tokens, 0, EmptyAcc, env)}})

----------------------------------------------------------------------------
(* Push router (PushNotificationService) *)

\* Variant: a fallback result that carries the code of the APNs client.
createEmptyResultAPNs(tokens) == AllFailed(tokens, "apns_not_configured")

createEmptyResult(tokens) == AllFailed(tokens, "not_configured")

\* What a router call yields: whether it raised, the value returned, the token lists
\* it handed to each client, whether a client threw, and the provider requests /
\* chunks of those clients.
RouterOut(raised, ret, apnsIn, fcmIn, c) ==
  [raised |-> raised, ret |-> ret, apnsIn |-> apnsIn, fcmIn |-> fcmIn,
   clientThrew |-> c.threw, calls |-> c.calls, rounds |-> c.rounds]

NoClient == ClientReturn(ZeroResult, 0, <<>>)

\* Variant: a router whose sendToTokens lets the exception of a client through.
sendToTokensNoCatch(tokens, c) ==
  IF c.threw
    THEN [raised |-> TRUE, ret |-> ZeroResult]
    ELSE [raised |-> FALSE, ret |-> c.ret]

\* The try/catch around the client call: a throw becomes an all-failed result.
sendToTokensCatch(tokens, c) ==
  IF c.threw
    THEN [raised |-> FALSE, ret |-> AllFailed(tokens, "send_error")]
    ELSE [raised |-> FALSE, ret |-> c.ret]

\* The outcome of the router's call of a client, c being what the client yielded.
ViaClient(tokens, apnsIn, fcmIn, c) ==
  The({RouterOut(r.raised, r.ret, apnsIn, fcmIn, c) : r \in {sendToTokensCatch(tokens, c)}})

\* Variant: a router that hands the tokens to the client of the platform without
\* asking whether it is configured.
PushSendToTokensUnchecked(tokens, platform, env) ==
  IF Len(tokens) = 0 THEN RouterOut(FALSE, ZeroResult, <<>>, <<>>, NoClient)
  ELSE IF platform = "ios"
    THEN The({ViaClient(tokens, <<tokens>>, <<>>, c) :
                c \in {APNsSendToTokens(tokens, env)}})
  ELSE IF platform = "android"
    THEN The({ViaClient(tokens, <<>>, <<tokens>>, c) :
                c \in {FCMSendToTokens(tokens, env)}})
  ELSE RouterOut(FALSE, createEmptyResult(tokens), <<>>, <<>>, NoClient)

PushSendToTokens(tokens, platform, env) ==
  IF Len(tokens) = 0 THEN RouterOut(FALSE, ZeroResult, <<>>, <<>>, NoClient)
  ELSE IF platform = "ios"
    THEN IF ~APNsIsConfigured
           THEN RouterOut(FALSE, createEmptyResult(tokens), <<>>, <<>>, NoClient)
           ELSE The({ViaClient(tokens, <<tokens>>, <<>>, c) :
                       c \in {APNsSendToTokens(tokens, env)}})
  ELSE IF platform = "android"
    THEN IF ~FCMIsConfigured
           THEN RouterOut(FALSE, createEmptyResult(tokens), <<>>, <<>>, NoClient)
           ELSE The({ViaClient(tokens, <<>>, <<tokens>>, c) :
                       c \in {FCMSendToTokens(tokens, env)}})
  ELSE RouterOut(FALSE, createEmptyResult(tokens), <<>>, <<>>, NoClient)

\* Variant: a filter that forgets the platform.
TokensOfAnyPlatform(devices, p) == [k \in 1..Len(devices) |-> devices[k].token]

\* devices.filter(d => d.platform === p).map(d => d.token)
TokensOfPlatform(devices, p) ==
  LET Is(d) == d.platform = p
      ds == SelectSeq(devices, Is)
  IN [k \in 1..Len(ds) |-> ds[k].token]

TokensOf(devices) == [k \in 1..Len(devices) |-> devices[k].token]

NoRouter == RouterOut(FALSE, ZeroResult, <<>>, <<>>, NoClient)

\* The additive merge of the per-platform results.
MergeResults(devices, ios, android) ==
  [raised |-> ios.raised \/ android.raised,
   ret |-> [deliveredTo |-> ios.ret.deliveredTo + android.ret.deliveredTo,
            failedCount |-> ios.ret.failedCount + android.ret.failedCount,
            totalDevices |-> Len(devices),
            invalidTokens |-> ios.ret.invalidTokens \o android.ret.invalidTokens,
            results |-> ios.ret.results \o android.ret.results],
   apnsIn |-> ios.apnsIn \o android.apnsIn,
   fcmIn |-> ios.fcmIn \o android.fcmIn,
   clientThrew |-> ios.clientThrew \/ android.clientThrew,
   calls |-> ios.calls + android.calls,
   rounds |-> ios.rounds \o android.rounds]

PushSendToDevices(devices, env) ==
  IF Len(devices) = 0 THEN NoRouter
  ELSE LET iosDevices == TokensOfPlatform(devices, "ios")
           androidDevices == TokensOfPlatform(devices, "android")
       IN The({The({MergeResults(devices, ios, android) :
                      android \in {IF Len(androidDevices) > 0 /\ ~ios.raised
                                     THEN PushSendToTokens(androidDevices, "android", env)
                                     ELSE NoRouter}}) :
                 ios \in {IF Len(iosDevices) > 0
                            THEN PushSendToTokens(iosDevices, "ios", env)
                            ELSE NoRouter}})

----------------------------------------------------------------------------
(* Construction of the provider clients *)

\* APNsService.initializeProvider: no config, no provider; with a config the
\* provider is built unless its constructor throws.  The config service is read
\* again on every call.
APNsInit ==
  /\ apnsConfig \in BOOLEAN
  /\ apnProvider \in BOOLEAN
  /\ apnProvider => apnsConfig

\* FCMService.initializeProvider: v1 sets authClient and the endpoint, or neither
\* when GoogleAuth throws; legacy sets the endpoint only.
FCMInit ==
  /\ fcmConfig \in {"none", "v1", "legacy"}
  /\ fcmEndpoint \in BOOLEAN
  /\ authClient \in BOOLEAN
  /\ fcmConfig = "none" => ~fcmEndpoint /\ ~authClient
  /\ fcmConfig = "v1" => authClient = fcmEndpoint
  /\ fcmConfig = "legacy" => fcmEndpoint /\ ~authClient

----------------------------------------------------------------------------
(* Specification of the router and the clients: one call, made from the state     *)
(* the constructors leave, is one step                                           *)

\* No provider answers: the environment of a call that reaches no provider, and
\* what is remembered of the environment of a call made through the router.
NoEnv == [out |-> <<>>, thr |-> {}, auth |-> TRUE, boom |-> FALSE]

NoCall ==
  [op |-> "none", devices |-> <<>>, tokens |-> <<>>, platform |-> "",
   env |-> NoEnv, out |-> NoRouter]

\* The callers of registerToken that can be in a call at the same time.
Callers == {"c1", "c2"}

\* No registerToken call in progress.
IdleCall == [pc |-> "idle"]

\* No queue.add call in progress.
NoAdd == [pc |-> "idle"]

\* No sendToTokens call is followed send by send.
NoFlight == [pc |-> "idle"]

\* Nobody registers a token and nobody enqueues through the queue service.
Quiet ==
  /\ clock = 0
  /\ registering = [c \in Callers |-> IdleCall]
  /\ broker = "up"
  /\ adding = NoAdd
  /\ flight = NoFlight

NoWorker ==
  /\ jobs = <<>>
  /\ nextJobId = 1
  /\ handler = <<>>
  /\ registry = {}
  /\ logs = <<>>
  /\ stalls = 0

RouterInit ==
  /\ APNsInit
  /\ FCMInit
  /\ last = NoCall
  /\ NoWorker
  /\ Quiet

CallSendToDevices ==
  /\ last = NoCall
  /\ UNCHANGED <<cfgVars, extraVars, workerVars>>
  /\ \E devices \in DeviceLists : \E env \in Envs(TokensOf(devices)) :
       last' = [op |-> "sendToDevices", devices |-> devices,
                tokens |-> TokensOf(devices), platform |-> "", env |-> NoEnv,
                out |-> PushSendToDevices(devices, env)]

CallSendToTokens ==
  /\ last = NoCall
  /\ UNCHANGED <<cfgVars, extraVars, workerVars>>
  /\ \E tokens \in SmallTokenLists : \E platform \in Platforms : \E env \in Envs(tokens) :
       last' = [op |-> "sendToTokens", devices |-> <<>>, tokens |-> tokens,
                platform |-> platform, env |-> NoEnv,
                out |-> PushSendToTokens(tokens, platform, env)]

\* A client call made directly, not through the router; the provider's answers
\* during the call are remembered with it (env).
DirectOut(tokens, c) ==
  RouterOut(c.threw, c.ret, <<>>, <<>>, c)

CallAPNs ==
  /\ last = NoCall
  /\ UNCHANGED <<cfgVars, extraVars, workerVars>>
  /\ \E tokens \in SmallTokenLists \cup BigTokenLists : \E env \in Envs(tokens) :
       last' = [op |-> "apns", devices |-> <<>>, tokens |-> tokens, platform |-> "ios",
                env |-> env, out |-> DirectOut(tokens, APNsSendToTokens(tokens, env))]

CallFCM ==
  /\ last = NoCall
  /\ UNCHANGED <<cfgVars, extraVars, workerVars>>
  /\ \E tokens \in SmallTokenLists \cup BigTokenLists : \E env \in Envs(tokens) :
       /\ env.thr = {}    \* the FCM client makes no per-chunk provider call
       /\ last' = [op |-> "fcm", devices |-> <<>>, tokens |-> tokens,
                   platform |-> "android", env |-> env,
                   out |-> DirectOut(tokens, FCMSendToTokens(tokens, env))]

\* The HTTP statuses of a failed FCM request; 0: the error carries no response.
HttpStatuses == {0, 400, 401, 402, 403, 404, 409, 429, 499, 500, 503}

\* error.response.data.error.status of a v1 error; "": absent.
BodyStatuses ==
  {"", "INVALID_ARGUMENT", "NOT_FOUND", "PERMISSION_DENIED", "UNAUTHENTICATED",
   "RESOURCE_EXHAUSTED", "UNAVAILABLE"}

\* The words of results[0].error of a legacy answer, or of 'Unknown error'.
ReasonWords ==
  {"InvalidRegistration", "NotRegistered", "MismatchSenderId", "InvalidPackageName",
   "MessageTooBig", "Unavailable", "Unknown", "error"}

LegacyReasons ==
  {<<w>> : w \in ReasonWords} \cup {<<v, w>> : v \in ReasonWords, w \in ReasonWords}

\* A classification of an FCM error, as the catch blocks of sendV1API and
\* sendLegacyAPI ask for it.
Classified(op, status, errorCode, errorMessage, code) ==
  [op |-> op, devices |-> <<>>, tokens |-> <<>>, platform |-> "", env |-> NoEnv,
   out |-> NoRouter, status |-> status, errorCode |-> errorCode,
   errorMessage |-> errorMessage, code |-> code]

CallMapFCMErrorCode ==
  /\ last = NoCall
  /\ UNCHANGED <<cfgVars, extraVars, workerVars>>
  /\ \E status \in HttpStatuses, errorCode \in BodyStatuses :
       last' = Classified("mapFCMErrorCode", status, errorCode, <<>>,
                          mapFCMErrorCode(status, errorCode))

CallMapLegacyFCMErrorCode ==
  /\ last = NoCall
  /\ UNCHANGED <<cfgVars, extraVars, workerVars>>
  /\ \E errorMessage \in LegacyReasons :
       last' = Classified("mapLegacyFCMErrorCode", 0, "", errorMessage,
                          mapLegacyFCMErrorCode(errorMessage))

RouterNext ==
  \/ CallSendToDevices
  \/ CallSendToTokens
  \/ CallAPNs
  \/ CallFCM
  \/ CallMapFCMErrorCode
  \/ CallMapLegacyFCMErrorCode

SpecRouter == RouterInit /\ [][RouterNext]_vars

----------------------------------------------------------------------------
(* Device registry and delivery log *)

RegistryTokens == {d.token : d \in registry}

\* Variant: a delete that removes the rows of the first token only.
DeleteFirstToken(rows, tokens) ==
  {d \in rows : Len(tokens) = 0 \/ d.token # tokens[1]}

\* deviceRepository.delete({ token: In(tokens) })
DeleteByTokens(rows, tokens) == {d \in rows : d.token \notin Range(tokens)}

\* The registry the jobs start from: user t has registered token t.
InitialRegistry ==
  {[userId |-> t, token |-> t, platform |-> IF t % 2 = 1 THEN "ios" ELSE "android"] :
     t \in 1..MaxJobTokens}

\* NotificationLogService.logNotification: the row saved; job is the job the call
\* was made for (not a column of the table).
LogRow(j, type, totalDevices, deliveredTo, failedCount, invalidTokens, error) ==
  [job |-> j, type |-> type, totalDevices |-> totalDevices, deliveredTo |-> deliveredTo,
   failedCount |-> failedCount, invalidTokens |-> invalidTokens,
   success |-> (failedCount = 0), error |-> error]

LogsOf(j) == {k \in DOMAIN logs : logs[k].job = j}

----------------------------------------------------------------------------
(* Job queues (Bull) and the dispatch worker *)

QueueTypes == {"timetable", "custom", "announcement"}

JobTokenLists == {Iota(n) : n \in 1..MaxJobTokens}

\* The provider answers a job can meet: of the answers that make the router return
\* the same result for the job, one is kept.
JobEnvs(tokens, platform) ==
  {CHOOSE e \in Envs(tokens) : PushSendToTokens(tokens, platform, e) = r :
     r \in {PushSendToTokens(tokens, platform, e) : e \in Envs(tokens)}}

\* The locals of processNotificationJob, and what the model remembers of the
\* attempt: the error codes of its results (codes), the provider requests made
\* for it (calls), the tokens a provider marked unregistered_token in it
\* (marked), and whether its registry delete threw (deleteThrew).
IdleHandler ==
  [pc |-> "idle", totalDelivered |-> 0, totalFailed |-> 0, allInvalidTokens |-> <<>>,
   codes |-> {}, calls |-> 0, marked |-> {}, deleteThrew |-> FALSE]

\* queue.add(job, { priority }) of queueTimetableNotification,
\* queueCustomNotification and queueAnnouncementNotification.
\* Jobs meet only in the registry and the log, and no job adds a registry row or
\* reads the log: the specification follows one job through the pipeline.
\* env is what the push providers answer for the tokens of the job; it is drawn
\* with the job and is the same in every attempt of the job.
\* A behaviour has the job, or one direct call of cleanupInvalidTokens.
Enqueue ==
  /\ jobs = <<>>
  /\ last = NoCall
  /\ \E tokens \in JobTokenLists, platform \in Platforms :
       \E env \in JobEnvs(tokens, platform) : \E type \in QueueTypes :
         jobs' = Append(jobs, [type |-> type, tokens |-> tokens, platform |-> platform,
                               priority |-> IF type = "custom" THEN 2 ELSE 1,
                               state |-> "waiting", attemptsMade |-> 0, env |-> env])
  /\ handler' = Append(handler, IdleHandler)
  /\ nextJobId' = nextJobId + 1
  /\ UNCHANGED <<cfgVars, extraVars, last, registry, logs, stalls>>

\* A worker takes a waiting job: queue.process(async (job) => processNotificationJob(...)).
Dequeue(j) ==
  /\ jobs[j].state = "waiting"
  /\ jobs' = [jobs EXCEPT ![j].state = "active"]
  /\ handler' = [handler EXCEPT ![j] = [IdleHandler EXCEPT !.pc = "send"]]
  /\ UNCHANGED <<cfgVars, extraVars, last, nextJobId, registry, logs, stalls>>

\* Variant: a grouping that hands on the first token only.
groupFirstTokenOnly(tokens, platform) ==
  <<[platform |-> platform, tokens |-> SubSeq(tokens, 1, 1)]>>

\* groupTokensByPlatform: one group, the job's platform with all its tokens.
groupTokensByPlatform(tokens, platform) == <<[platform |-> platform, tokens |-> tokens]>>

CodesOf(ret) == {ret.results[k].code : k \in 1..Len(ret.results)} \ {""}

TokensWithCode(ret, code) ==
  {ret.results[k].token : k \in {i \in 1..Len(ret.results) : ret.results[i].code = code}}

\* Variant: a handler that goes from the send loop to the log write without the
\* cleanup of the invalid tokens.
AfterSendNoCleanup(h, r) ==
  [h EXCEPT !.pc = "log",
            !.totalDelivered = @ + r.ret.deliveredTo,
            !.totalFailed = @ + r.ret.failedCount,
            !.allInvalidTokens = @ \o r.ret.invalidTokens,
            !.codes = CodesOf(r.ret),
            !.calls = @ + r.calls,
            !.marked = TokensWithCode(r.ret, "unregistered_token")]

\* The loop over the platform groups: sendToTokens and the running totals.
AfterSend(h, r) ==
  [h EXCEPT !.pc = IF Len(r.ret.invalidTokens) > 0 THEN "cleanup" ELSE "log",
            !.totalDelivered = @ + r.ret.deliveredTo,
            !.totalFailed = @ + r.ret.failedCount,
            !.allInvalidTokens = @ \o r.ret.invalidTokens,
            !.codes = CodesOf(r.ret),
            !.calls = @ + r.calls,
            !.marked = TokensWithCode(r.ret, "unregistered_token")]

Send(j) ==
  /\ jobs[j].state = "active"
  /\ handler[j].pc = "send"
  /\ LET group == groupTokensByPlatform(jobs[j].tokens, jobs[j].platform)[1]
     IN \E r \in {PushSendToTokens(group.tokens, group.platform, jobs[j].env)} :
          handler' = [handler EXCEPT ![j] = AfterSend(@, r)]
  /\ UNCHANGED <<cfgVars, extraVars, last, jobs, nextJobId, registry, logs, stalls>>

\* Variant: a cleanup without the try/catch around the delete.
cleanupInvalidTokensNoCatch(rows, invalidTokens, deleteThrows) ==
  IF Len(invalidTokens) = 0
    THEN [rows |-> rows, deletes |-> 0, deleteThrew |-> FALSE, raised |-> FALSE]
  ELSE IF deleteThrows
    THEN [rows |-> rows, deletes |-> 1, deleteThrew |-> TRUE, raised |-> TRUE]
  ELSE [rows |-> DeleteByTokens(rows, invalidTokens), deletes |-> 1,
        deleteThrew |-> FALSE, raised |-> FALSE]

\* PushNotificationService.cleanupInvalidTokens: nothing on an empty list; else one
\* delete, whose error is logged and swallowed.  rows is the table after the call,
\* deletes the deletes issued, raised whether the call rejects.
cleanupInvalidTokens(rows, invalidTokens, deleteThrows) ==
  IF Len(invalidTokens) = 0
    THEN [rows |-> rows, deletes |-> 0, deleteThrew |-> FALSE, raised |-> FALSE]
  ELSE IF deleteThrows
    THEN [rows |-> rows, deletes |-> 1, deleteThrew |-> TRUE, raised |-> FALSE]
  ELSE [rows |-> DeleteByTokens(rows, invalidTokens), deletes |-> 1,
        deleteThrew |-> FALSE, raised |-> FALSE]

\* The handler awaits cleanupInvalidTokens inside its try block.
Cleanup(j) ==
  /\ jobs[j].state = "active"
  /\ handler[j].pc = "cleanup"
  /\ \E deleteThrows \in BOOLEAN :
       \E c \in {cleanupInvalidTokens(registry, handler[j].allInvalidTokens, deleteThrows)} :
         /\ registry' = c.rows
         /\ handler' = [handler EXCEPT ![j].pc = IF c.raised THEN "catch" ELSE "log",
                                       ![j].deleteThrew = c.deleteThrew]
  /\ UNCHANGED <<cfgVars, extraVars, last, jobs, nextJobId, logs, stalls>>

\* cleanupInvalidTokens called directly, on the registry the jobs start from.
CallCleanupInvalidTokens ==
  /\ jobs = <<>>
  /\ last = NoCall
  /\ \E invalidTokens \in {<<>>} \cup JobTokenLists, deleteThrows \in BOOLEAN :
       \E c \in {cleanupInvalidTokens(registry, invalidTokens, deleteThrows)} :
         /\ registry' = c.rows
         /\ last' = [op |-> "cleanupInvalidTokens", devices |-> <<>>,
                     tokens |-> invalidTokens, platform |-> "", env |-> NoEnv,
                     out |-> NoRouter, deletes |-> c.deletes,
                     deleteThrew |-> c.deleteThrew, raised |-> c.raised]
  /\ UNCHANGED <<cfgVars, extraVars, jobs, nextJobId, handler, logs, stalls>>

\* The log write of the success path succeeds and the handler resolves.
LogAndResolve(j) ==
  /\ jobs[j].state = "active"
  /\ handler[j].pc = "log"
  /\ logs' = Append(logs, LogRow(j, jobs[j].type, Len(jobs[j].tokens),
                                 handler[j].totalDelivered, handler[j].totalFailed,
                                 Len(handler[j].allInvalidTokens), FALSE))
  /\ handler' = [handler EXCEPT ![j].pc = "resolved"]
  /\ UNCHANGED <<cfgVars, extraVars, last, jobs, nextJobId, registry, stalls>>

\* Bull records the resolved handler: the job moves to completed.
MoveToCompleted(j) ==
  /\ jobs[j].state = "active"
  /\ handler[j].pc = "resolved"
  /\ jobs' = [jobs EXCEPT ![j].state = "completed"]
  /\ handler' = [handler EXCEPT ![j].pc = "done"]
  /\ UNCHANGED <<cfgVars, extraVars, last, nextJobId, registry, logs, stalls>>

\* Variant: Bull with attempts = 3, but a third rejection delays the job once more.
MoveToFailedOneMore(job) ==
  IF job.attemptsMade + 1 <= attempts
    THEN [job EXCEPT !.attemptsMade = @ + 1, !.state = "delayed"]
    ELSE [job EXCEPT !.attemptsMade = @ + 1, !.state = "failed"]

\* Bull's handling of a rejected handler under attempts / backoff: the failed attempt
\* is counted, and the job is delayed for a retry while attempts remain.
MoveToFailed(job) ==
  IF job.attemptsMade + 1 < attempts
    THEN [job EXCEPT !.attemptsMade = @ + 1, !.state = "delayed"]
    ELSE [job EXCEPT !.attemptsMade = @ + 1, !.state = "failed"]

\* Variant: a handler without the catch block, whose throwing log write rejects
\* the handler at once.
LogThrowsNoCatch(j) ==
  /\ jobs[j].state = "active"
  /\ handler[j].pc = "log"
  /\ jobs' = [jobs EXCEPT ![j] = MoveToFailed(@)]
  /\ handler' = [handler EXCEPT ![j].pc = "done"]
  /\ UNCHANGED <<cfgVars, extraVars, last, nextJobId, registry, logs, stalls>>

\* The log write of the success path throws: control passes to the catch block.
LogThrows(j) ==
  /\ jobs[j].state = "active"
  /\ handler[j].pc = "log"
  /\ handler' = [handler EXCEPT ![j].pc = "catch"]
  /\ UNCHANGED <<cfgVars, extraVars, last, jobs, nextJobId, registry, logs, stalls>>

\* Variant: a catch block that writes the failure row and swallows the error, so
\* that the handler resolves.
CatchAndSwallow(j) ==
  /\ jobs[j].state = "active"
  /\ handler[j].pc = "catch"
  /\ logs' = Append(logs, LogRow(j, jobs[j].type, Len(jobs[j].tokens), 0,
                                 Len(jobs[j].tokens), 0, TRUE))
  /\ handler' = [handler EXCEPT ![j].pc = "resolved"]
  /\ UNCHANGED <<cfgVars, extraVars, last, jobs, nextJobId, registry, stalls>>

\* The catch block: the failure row is written (or that write throws too), then the
\* error is thrown again and the handler rejects.
CatchAndThrow(j) ==
  /\ jobs[j].state = "active"
  /\ handler[j].pc = "catch"
  /\ \E logThrows \in BOOLEAN :
       logs' = IF logThrows THEN logs
               ELSE Append(logs, LogRow(j, jobs[j].type, Len(jobs[j].tokens), 0,
                                        Len(jobs[j].tokens), 0, TRUE))
  /\ jobs' = [jobs EXCEPT ![j] = MoveToFailed(@)]
  /\ handler' = [handler EXCEPT ![j].pc = "done"]
  /\ UNCHANGED <<cfgVars, extraVars, last, nextJobId, registry, stalls>>

\* The backoff delay of a retried job has elapsed.
Promote(j) ==
  /\ jobs[j].state = "delayed"
  /\ jobs' = [jobs EXCEPT ![j].state = "waiting"]
  /\ UNCHANGED <<cfgVars, extraVars, last, nextJobId, handler, registry, logs, stalls>>

\* Variant: a stall detector that puts a copy of the stalled job in the queue.
StallAndCopy(j) ==
  /\ jobs[j].state = "active"
  /\ stalls < MaxStalls
  /\ stalls' = stalls + 1
  /\ jobs' = Append([jobs EXCEPT ![j].state = "waiting"],
                    [jobs[j] EXCEPT !.state = "waiting"])
  /\ handler' = Append([handler EXCEPT ![j] = IdleHandler], IdleHandler)
  /\ nextJobId' = nextJobId + 1
  /\ UNCHANGED <<cfgVars, extraVars, last, registry, logs>>

\* The worker process holding the job dies; the stall detector returns the job to
\* its queue (the 'stalled' event).  The attempt is not counted.
Stall(j) ==
  /\ jobs[j].state = "active"
  /\ stalls < MaxStalls
  /\ stalls' = stalls + 1
  /\ jobs' = [jobs EXCEPT ![j].state = "waiting"]
  /\ handler' = [handler EXCEPT ![j] = IdleHandler]
  /\ UNCHANGED <<cfgVars, extraVars, last, nextJobId, registry, logs>>

\* The worker runs with provider clients whose construction did not fail.
Init ==
  /\ APNsInit
  /\ FCMInit
  /\ apnProvider = apnsConfig
  /\ fcmEndpoint = (fcmConfig # "none")
  /\ last = NoCall
  /\ jobs = <<>>
  /\ nextJobId = 1
  /\ handler = <<>>
  /\ registry = InitialRegistry
  /\ logs = <<>>
  /\ stalls = 0
  /\ Quiet

Next ==
  \/ Enqueue
  \/ CallCleanupInvalidTokens
  \/ \E j \in DOMAIN jobs : Dequeue(j)
  \/ \E j \in DOMAIN jobs : Send(j)
  \/ \E j \in DOMAIN jobs : Cleanup(j)
  \/ \E j \in DOMAIN jobs : LogAndResolve(j)
  \/ \E j \in DOMAIN jobs : MoveToCompleted(j)
  \/ \E j \in DOMAIN jobs : LogThrows(j)
  \/ \E j \in DOMAIN jobs : CatchAndThrow(j)
  \/ \E j \in DOMAIN jobs : Promote(j)
  \/ \E j \in DOMAIN jobs : Stall(j)

Spec == Init /\ [][Next]_vars

----------------------------------------------------------------------------
(* Properties of the dispatch worker (specification Spec) *)

Terminal == {"completed", "failed"}

\* C1 (as the specification words it): whenever a job has reached Completed or
\* Failed, the Delivery Log holds exactly one row written for that job.
C1_ExactlyOneLogRow ==
  \A j \in DOMAIN jobs :
    jobs[j].state \in Terminal => Cardinality(LogsOf(j)) = 1

\* One step of job j, as the job state machine allows it.
C2_Transition(j) ==
  LET s == jobs[j].state
      t == jobs'[j].state
      a == jobs[j].attemptsMade
      b == jobs'[j].attemptsMade
      throws == handler[j].pc = "catch" /\ handler'[j].pc = "done"
      resolves == handler[j].pc = "resolved" /\ handler'[j].pc = "done"
  IN /\ b <= attempts
     /\ s \in Terminal => t = s /\ b = a
     /\ s = "waiting" => t \in {"waiting", "active"} /\ b = a
     /\ s = "waiting" /\ t = "active" => a < attempts
     /\ s = "delayed" => t \in {"delayed", "waiting"} /\ b = a
     /\ s = "active" => t \in {"active", "completed", "delayed", "failed", "waiting"}
     /\ s = "active" /\ t = "completed" => resolves /\ b = a
     /\ s = "active" /\ resolves => t = "completed"
     /\ s = "active" /\ t \in {"delayed", "failed"} => throws
     /\ s = "active" /\ throws =>
          /\ b = a + 1
          /\ t = IF b < attempts THEN "delayed" ELSE "failed"
     /\ s = "active" /\ t = "failed" => b = attempts
     /\ s = "active" /\ t \in {"active", "waiting"} => b = a

TransientCodes == {"server_error", "too_many_requests", "batch_error", "send_error"}

\* C3 (as the specification words it): a job whose send met a transient or
\* transport-level token error is retried; it does not complete on that attempt.
C3_TransientFailureRetried ==
  \A j \in DOMAIN jobs :
    jobs[j].state = "completed" => handler[j].codes \cap TransientCodes = {}

\* C4 (as the specification words it): once a job has finished, no token that a
\* provider marked unregistered_token during the job, in the attempt that
\* finished it, is left in the Device Registry, whatever the delete and the log
\* write did.
C4_CleanupClosure ==
  \A j \in DOMAIN jobs :
    jobs[j].state \in Terminal => handler[j].marked \cap RegistryTokens = {}

\* C4: from the moment the cleanup of an attempt has run with a registry delete
\* that did not throw, and so when the job has finished after it, no token that
\* a provider marked unregistered_token in that attempt is left in the Device
\* Registry, whether the log write succeeds or throws.
C4_CleanupClosureWhenDeleteSucceeds ==
  \A j \in DOMAIN jobs :
    handler[j].pc \in {"log", "resolved", "catch", "done"} /\ ~handler[j].deleteThrew =>
      handler[j].marked \cap RegistryTokens = {}

\* A job has finished after an attempt in which a provider marked a registered
\* token and the delete went through.
C4_Witness ==
  \E j \in DOMAIN jobs :
    /\ jobs[j].state \in Terminal
    /\ handler[j].marked # {}
    /\ handler[j].marked \subseteq {d.token : d \in InitialRegistry}
    /\ ~handler[j].deleteThrew

----------------------------------------------------------------------------
(* Properties of the router and the provider clients (specification SpecRouter) *)

Calls == {"sendToDevices", "sendToTokens", "apns", "fcm"}

\* The tokens a result reports as failed.
FailedTokens(ret) ==
  {ret.results[k].token : k \in {i \in 1..Len(ret.results) : ~ret.results[i].success}}

\* C5 (as the specification words it): every result the router or a provider
\* client returns has deliveredTo + failedCount = totalDevices, and its
\* invalidTokens are tokens of failed results, whatever platforms the device list
\* holds.
C5_TotalsAddUp ==
  last.op \in Calls /\ ~last.out.raised =>
    /\ last.out.ret.deliveredTo + last.out.ret.failedCount = last.out.ret.totalDevices
    /\ Range(last.out.ret.invalidTokens) \subseteq FailedTokens(last.out.ret)

\* The tokens handed to a client in the call that completed last.
Handed(lists) == UNION {Range(lists[i]) : i \in 1..Len(lists)}

LabelledOnly(devices, token, p) ==
  \A k \in 1..Len(devices) : devices[k].token = token => devices[k].platform = p

\* C6: in sendToDevices every token handed to the FCM client is the token of a
\* device labelled android, and every token handed to the APNs client is the
\* token of a device labelled ios; a token labelled ios only never reaches FCM,
\* one labelled android only never reaches APNs, and one labelled neither reaches
\* no client.  sendToTokens hands tokens to APNs only for platform ios and to FCM
\* only for platform android.
C6_PlatformIsolation ==
  /\ last.op = "sendToDevices" =>
       /\ \A t \in Handed(last.out.fcmIn) :
            \E k \in 1..Len(last.devices) :
              last.devices[k].token = t /\ last.devices[k].platform = "android"
       /\ \A t \in Handed(last.out.apnsIn) :
            \E k \in 1..Len(last.devices) :
              last.devices[k].token = t /\ last.devices[k].platform = "ios"
       /\ \A k \in 1..Len(last.devices) :
            LET t == last.devices[k].token
            IN /\ LabelledOnly(last.devices, t, "ios") => t \notin Handed(last.out.fcmIn)
               /\ LabelledOnly(last.devices, t, "android") => t \notin Handed(last.out.apnsIn)
               /\ LabelledOnly(last.devices, t, "web") =>
                    t \notin Handed(last.out.fcmIn) \cup Handed(last.out.apnsIn)
  /\ last.op = "sendToTokens" =>
       /\ last.out.apnsIn # <<>> => last.platform = "ios" /\ last.out.fcmIn = <<>>
       /\ last.out.fcmIn # <<>> => last.platform = "android" /\ last.out.apnsIn = <<>>

\* A mixed list went through sendToDevices and both clients were handed tokens.
C6_Witness ==
  /\ last.op = "sendToDevices"
  /\ last.out.apnsIn # <<>>
  /\ last.out.fcmIn # <<>>
  /\ \E k \in 1..Len(last.devices) : last.devices[k].platform = "web"

\* The platform of the call is not ios or android, or its client is not configured.
Unroutable(platform) ==
  \/ platform \notin {"ios", "android"}
  \/ platform = "ios" /\ ~APNsIsConfigured
  \/ platform = "android" /\ ~FCMIsConfigured

\* C7: the router's sendToTokens never raises.  For a platform other than ios and
\* android, or whose client is not configured, it calls no client and returns a
\* result in which every token failed with code not_configured; when the client
\* throws it returns a result in which every token failed with code send_error.
C7_RouterNeverRaises ==
  last.op = "sendToTokens" =>
    /\ ~last.out.raised
    /\ Unroutable(last.platform) =>
         /\ last.out.calls = 0
         /\ last.out.apnsIn = <<>> /\ last.out.fcmIn = <<>>
         /\ last.out.ret.deliveredTo = 0
         /\ last.out.ret.failedCount = Len(last.tokens)
         /\ last.out.ret.totalDevices = Len(last.tokens)
         /\ last.out.ret.results =
              [k \in 1..Len(last.tokens) |-> Failure(last.tokens[k], "not_configured")]
    /\ last.out.clientThrew =>
         /\ last.out.ret.deliveredTo = 0
         /\ last.out.ret.failedCount = Len(last.tokens)
         /\ last.out.ret.totalDevices = Len(last.tokens)
         /\ last.out.ret.results =
              [k \in 1..Len(last.tokens) |-> Failure(last.tokens[k], "send_error")]

\* sendToTokens was called with tokens for ios while APNs is not configured.
C7_Witness ==
  /\ last.op = "sendToTokens"
  /\ last.platform = "ios"
  /\ ~APNsIsConfigured
  /\ Len(last.tokens) > 1
  /\ last.out.ret.failedCount = Len(last.tokens)

\* The results of sendToDevices: those of the ios tokens come first.
IosPart(devices, ret) == SubSeq(ret.results, 1, Len(TokensOfPlatform(devices, "ios")))

Successes(ret) == {k \in 1..Len(ret.results) : ret.results[k].success}

\* What C8 says of sendToDevices while APNs is not configured, the ios tokens
\* failing with the given code.
C8_Body(code) ==
  last.op = "sendToDevices" /\ last.devices # <<>> /\ ~APNsIsConfigured =>
    LET ios == TokensOfPlatform(last.devices, "ios")
        ret == last.out.ret
    IN /\ ~last.out.raised
       /\ ret.totalDevices = Len(last.devices)
       /\ Len(ret.results) >= Len(ios)
       /\ IosPart(last.devices, ret) = [k \in 1..Len(ios) |-> Failure(ios[k], code)]
       /\ ret.failedCount >= Len(ios)
       /\ ret.deliveredTo = Cardinality(Successes(ret))
       /\ \A k \in Successes(ret) :
            \E i \in 1..Len(last.devices) :
              /\ last.devices[i].token = ret.results[k].token
              /\ last.devices[i].platform = "android"

\* C8 (as the specification words it): while APNs is not configured, every ios
\* token sent through sendToDevices is reported failed with code
\* apns_not_configured, totalDevices is the length of the list and deliveredTo
\* is the number of successful android sends.
C8_IosCodeOfClient == C8_Body("apns_not_configured")

\* C8: while APNs is not configured, every ios token sent through sendToDevices
\* is reported failed with code not_configured, totalDevices is the length of
\* the list, failedCount is at least the number of ios tokens and deliveredTo is
\* the number of successful android sends.
C8_IosCodeOfRouter == C8_Body("not_configured")

\* Two android devices and one ios device, FCM configured and APNs not, both
\* android sends delivered.
C8_Witness ==
  /\ last.op = "sendToDevices"
  /\ FCMIsConfigured /\ ~APNsIsConfigured
  /\ Len(last.devices) = 3
  /\ Len(TokensOfPlatform(last.devices, "android")) = 2
  /\ Len(TokensOfPlatform(last.devices, "ios")) = 1
  /\ last.out.ret.deliveredTo = 2
  /\ last.out.ret.failedCount = 1

CeilDiv(n, d) == IF n % d = 0 THEN n \div d ELSE (n \div d) + 1

\* The chunks are the consecutive runs of at most batchSize tokens of the list.
ChunksCover(tokens, rounds) ==
  /\ Len(rounds) = CeilDiv(Len(tokens), batchSize)
  /\ \A k \in 1..Len(rounds) :
       LET lo == (k - 1) * batchSize + 1
           hi == Min(k * batchSize, Len(tokens))
       IN /\ rounds[k].len <= batchSize
          /\ rounds[k].len = hi - lo + 1
          /\ rounds[k].first = tokens[lo]
          /\ rounds[k].last = tokens[hi]

\* A configured client was called directly and returned.
ClientReturned(op) ==
  /\ last.op = op
  /\ IF op = "apns" THEN APNsIsConfigured ELSE FCMIsConfigured
  /\ ~last.out.raised

C10_UnconfiguredClient ==
  /\ last.op = "apns" /\ ~APNsIsConfigured =>
       /\ ~last.out.raised
       /\ last.out.calls = 0 /\ last.out.rounds = <<>>
       /\ last.out.ret.deliveredTo = 0
       /\ last.out.ret.failedCount = Len(last.tokens)
       /\ last.out.ret.results =
            [k \in 1..Len(last.tokens) |-> Failure(last.tokens[k], "apns_not_configured")]
  /\ last.op = "fcm" /\ ~FCMIsConfigured =>
       /\ ~last.out.raised
       /\ last.out.calls = 0 /\ last.out.rounds = <<>>
       /\ last.out.ret.deliveredTo = 0
       /\ last.out.ret.failedCount = Len(last.tokens)
       /\ last.out.ret.results =
            [k \in 1..Len(last.tokens) |-> Failure(last.tokens[k], "fcm_not_configured")]

\* The APNs client, not configured, was called with more tokens than one chunk
\* holds.
C10_Witness ==
  /\ last.op = "apns"
  /\ ~APNsIsConfigured
  /\ Len(last.tokens) > batchSize
  /\ last.out.ret.failedCount = Len(last.tokens)

\* The positions of the k-th chunk in a list of n tokens.
ChunkPositions(k, n) == ((k - 1) * batchSize + 1)..Min(k * batchSize, n)

\* C11: in the APNs client, a chunk whose provider call throws has every one of
\* its tokens reported failed with code batch_error; no token of another chunk
\* gets that code; every chunk is sent, also those after a failed one; and the
\* results of the other chunks are those of their own tokens, successful
\* exactly where the provider accepted the token.
C11_ChunkErrorIsContained ==
  ClientReturned("apns") /\ last.tokens # <<>> =>
    LET n == Len(last.tokens)
        res == last.out.ret.results
    IN /\ Len(res) = n
       /\ Len(last.out.rounds) = CeilDiv(n, batchSize)
       /\ \A k \in 1..CeilDiv(n, batchSize) :
            IF (k - 1) * batchSize \in last.env.thr
              THEN \A p \in ChunkPositions(k, n) :
                     res[p] = Failure(last.tokens[p], "batch_error")
              ELSE /\ {res[p].token : p \in ChunkPositions(k, n)} =
                        {last.tokens[p] : p \in ChunkPositions(k, n)}
                   /\ \A p \in ChunkPositions(k, n) :
                        /\ res[p].code # "batch_error"
                        /\ res[p].success <=> last.env.out[res[p].token] = "ok"

\* Of three chunks the second threw, and tokens of the first and of the third
\* were delivered.
C11_Witness ==
  /\ ClientReturned("apns")
  /\ Len(last.tokens) = 2 * batchSize + 1
  /\ last.env.thr = {batchSize}
  /\ last.out.ret.results[1].success
  /\ last.out.ret.results[2 * batchSize + 1].success
  /\ last.out.ret.failedCount >= batchSize

\* C12: in the FCM client, v1 or legacy, every submitted token has exactly one
\* entry in results, at its own position; a token's entry is successful exactly
\* when its own send succeeded, whatever happened to its siblings; totalDevices
\* is N and deliveredTo + failedCount is N, the chunks being the consecutive
\* runs of at most 500 tokens (600 tokens: 500 + 100).
C12_SettledTogether ==
  ClientReturned("fcm") =>
    LET n == Len(last.tokens)
        ret == last.out.ret
    IN /\ Len(ret.results) = n
       /\ \A p \in 1..n :
            /\ ret.results[p].token = last.tokens[p]
            /\ ret.results[p].success <=>
                 /\ last.env.out[last.tokens[p]] = "ok"
                 /\ fcmConfig = "v1" => last.env.auth
       /\ ret.totalDevices = n
       /\ ret.deliveredTo = Cardinality(Successes(ret))
       /\ ret.deliveredTo + ret.failedCount = n
       /\ ChunksCover(last.tokens, last.out.rounds)

\* 600 tokens went through FCM v1 in chunks of 500 and 100, some delivered and
\* some failed.
C12_Witness ==
  /\ ClientReturned("fcm")
  /\ fcmConfig = "v1"
  /\ Len(last.tokens) = batchSize + 100
  /\ Len(last.out.rounds) = 2
  /\ last.out.rounds[1].len = batchSize /\ last.out.rounds[2].len = 100
  /\ last.out.ret.deliveredTo > 0
  /\ last.out.ret.failedCount > 0
  /\ last.out.ret.deliveredTo + last.out.ret.failedCount = batchSize + 100

----------------------------------------------------------------------------
(* Further properties of the dispatch worker (specification Spec) *)

\* The rows the success path wrote for job j in the log l.
SuccessRows(l, j) == {k \in DOMAIN l : l[k].job = j /\ ~l[k].error}

\* C14 (as the specification words it): over any execution, retries and stalls
\* included, at most one attempt of a job runs to successful completion.
C14_AtMostOneSuccessfulRun ==
  \A j \in DOMAIN jobs : Cardinality(SuccessRows(logs, j)) <= 1

\* A step of the queues neither copies nor re-runs a finished job.
C14_Step ==
  /\ \A j \in DOMAIN jobs :
       /\ j \in DOMAIN jobs' /\ jobs'[j].tokens = jobs[j].tokens
       /\ jobs[j].state = "completed" =>
            /\ jobs'[j] = jobs[j]
            /\ handler'[j] = handler[j]
            /\ SuccessRows(logs', j) = SuccessRows(logs, j)
       /\ jobs'[j].state = "completed" /\ jobs[j].state # "completed" =>
            jobs[j].state = "active" /\ handler[j].pc = "resolved"
       /\ jobs'[j] # jobs[j] => Len(jobs') = Len(jobs)
  /\ Len(jobs') # Len(jobs) =>
       /\ jobs' = Append(jobs, jobs'[Len(jobs')])
       /\ jobs'[Len(jobs')].state = "waiting"
       /\ jobs'[Len(jobs')].attemptsMade = 0
       /\ nextJobId' = nextJobId + 1
       /\ stalls' = stalls

\* C14: a job is recorded as completed at most once and is not processed again
\* once Completed; no retry and no stall puts a second job in a queue; and the
\* handler runs to its end successfully at most once more than the job has
\* stalled.
C14_CompletedOnce ==
  /\ [](\A j \in DOMAIN jobs :
          /\ Cardinality(SuccessRows(logs, j)) <= 1 + stalls
          /\ jobs[j].state = "completed" => SuccessRows(logs, j) # {})
  /\ [][C14_Step]_vars

\* A job is Completed after its handler ran to the end twice: the worker died
\* between the log write and the recording of the completion.
C14_Witness ==
  \E j \in DOMAIN jobs :
    /\ jobs[j].state = "completed"
    /\ Cardinality(SuccessRows(logs, j)) = 2
    /\ stalls = 1

\* C19 (as the specification words it): a job whose platform has no configured
\* provider ends Completed after exactly one attempt; it is never delayed for a
\* retry and never Failed.
C19_OneAttemptOnly ==
  \A j \in DOMAIN jobs :
    Unroutable(jobs[j].platform) =>
      jobs[j].attemptsMade = 0 /\ jobs[j].state \notin {"delayed", "failed"}

\* A step of a job whose platform has no configured provider.
C19_Step(j) ==
  Unroutable(jobs[j].platform) =>
    /\ handler[j].pc = "send" /\ handler'[j].pc # "send" /\ jobs'[j].state = "active" =>
         handler'[j].pc = "log"
    /\ handler'[j].pc = "catch" /\ handler[j].pc # "catch" => handler[j].pc = "log"
    /\ jobs'[j].attemptsMade # jobs[j].attemptsMade => handler[j].pc = "catch"
    /\ jobs'[j].state \in {"delayed", "failed"} /\ jobs[j].state = "active" =>
         handler[j].pc = "catch"

\* C19: a job whose platform has no configured provider contacts no provider
\* and has every token failed with code not_configured; its attempt goes from
\* the send straight to the Delivery Log write, without cleanup, and the job is
\* delayed for a retry or Failed only when a Delivery Log write threw.
C19_ConfigurationErrorNotRetried ==
  /\ [](\A j \in DOMAIN jobs :
          Unroutable(jobs[j].platform) =>
            /\ handler[j].pc # "cleanup"
            /\ handler[j].pc \in {"log", "resolved", "catch", "done"} =>
                 /\ handler[j].calls = 0
                 /\ handler[j].totalDelivered = 0
                 /\ handler[j].totalFailed = Len(jobs[j].tokens)
                 /\ handler[j].codes = {"not_configured"}
                 /\ handler[j].allInvalidTokens = <<>>)
  /\ [][\A j \in DOMAIN jobs : C19_Step(j)]_vars

\* An ios job of two tokens, APNs not configured, is Completed on its first
\* attempt with both tokens failed.
C19_Witness ==
  \E j \in DOMAIN jobs :
    /\ jobs[j].platform = "ios" /\ ~APNsIsConfigured
    /\ Len(jobs[j].tokens) = 2
    /\ jobs[j].state = "completed"
    /\ jobs[j].attemptsMade = 0
    /\ handler[j].totalFailed = 2
    /\ handler[j].calls = 0

\* The row the catch block writes for job j.
FailureRow(j) ==
  LogRow(j, jobs[j].type, Len(jobs[j].tokens), 0, Len(jobs[j].tokens), 0, TRUE)

\* The handler of job j, in its catch block, rejects.
Rejects(j) == handler[j].pc = "catch" /\ handler'[j].pc = "done"

\* C20 (as the specification words it): whenever the handler rejects after an
\* exception, it has written a Delivery Log row with deliveredTo = 0 and
\* failedCount = totalDevices = the number of tokens of the job, and the error.
C20_FailureRowWritten ==
  [][\A j \in DOMAIN jobs : Rejects(j) => logs' = Append(logs, FailureRow(j))]_vars

\* C20: once an exception has taken the handler of a job into its catch block,
\* the handler writes the failure row (deliveredTo = 0, failedCount =
\* totalDevices = the number of tokens, the error) unless that write throws
\* too, writes nothing else, and rejects: the attempt is counted as failed, the
\* job is delayed or Failed under the retry policy, and it never resolves.
C20_CatchRejects ==
  [][\A j \in DOMAIN jobs :
       handler[j].pc = "catch" /\ handler'[j] # handler[j] =>
         /\ jobs'[j].state # "completed"
         /\ handler'[j].pc \notin {"resolved", "log"}
         /\ \/ /\ Rejects(j)
               /\ logs' \in {logs, Append(logs, FailureRow(j))}
               /\ jobs'[j].attemptsMade = jobs[j].attemptsMade + 1
               /\ jobs'[j].state =
                    IF jobs'[j].attemptsMade < attempts THEN "delayed" ELSE "failed"
            \/ /\ jobs'[j].state = "waiting"
               /\ stalls' = stalls + 1
               /\ logs' = logs]_vars

\* The handler has rejected after writing the failure row, and the job waits for
\* its retry.
C20_Witness ==
  \E j \in DOMAIN jobs :
    /\ jobs[j].state = "delayed"
    /\ handler[j].pc = "done"
    /\ logs # <<>>
    /\ logs[Len(logs)] = FailureRow(j)

----------------------------------------------------------------------------
(* Token registration (specification SpecRegistry): NotificationService.       *)
(* registerToken, whose two repository calls are two steps, so that calls of   *)
(* different callers interleave                                                *)

MaxRegistrations == 2   \* most registerToken calls in one behaviour

Users == {"u1", "u2"}

Departments == {"d1", "d2"}

DeviceTokens == {1, 2}

\* The platform column is nullable and the platform argument optional: "none".
DevicePlatforms == Platforms \cup {"none"}

\* Both provider clients are configured.
Configured ==
  /\ apnsConfig = TRUE /\ apnProvider = TRUE
  /\ fcmConfig = "v1" /\ fcmEndpoint = TRUE /\ authClient = TRUE

\* deviceRepository.findOne({ where: { userId, token } }): the rows that match.
findOne(rows, userId, token) == {d \in rows : d.userId = userId /\ d.token = token}

\* deviceRepository.create({...}) of registerToken.
\* id stands for the generated primary key.
CreateDevice(id, userId, token, platform, departmentId, now) ==
  [id |-> id, userId |-> userId, token |-> token, platform |-> platform,
   departmentId |-> departmentId, lastActiveAt |-> now, createdAt |-> now]

\* Variant: an insert that, on a conflict with the unique index, overwrites the
\* row of the pair instead of failing.
saveOrOverwrite(rows, device) ==
  [rows |-> {d \in rows : d.userId # device.userId \/ d.token # device.token}
            \cup {device},
   threw |-> FALSE]

\* Variant: a devices table without the unique index on (userId, token).
saveUnindexed(rows, device) == [rows |-> rows \cup {device}, threw |-> FALSE]

\* deviceRepository.save(device) of a new device: an INSERT, which the unique
\* index on (userId, token) rejects when the pair is in the table.
save(rows, device) ==
  IF \E d \in rows : d.userId = device.userId /\ d.token = device.token
    THEN [rows |-> rows, threw |-> TRUE]
    ELSE [rows |-> rows \cup {device}, threw |-> FALSE]

\* deviceRepository.update(existing.id, { lastActiveAt, platform, departmentId }):
\* the row with the id findOne returned, if it is still in the table.  An absent
\* platform argument leaves the column as it is or clears it.
update(rows, existing, now, platform, departmentId) ==
  {IF d.id = existing.id
     THEN [d EXCEPT !.lastActiveAt = now, !.platform = platform,
                    !.departmentId = departmentId]
     ELSE d : d \in rows}

\* registerToken up to the end of findOne.
RegisterFind(c) ==
  /\ registering[c].pc \in {"idle", "done"}
  /\ clock < MaxRegistrations
  /\ clock' = clock + 1
  /\ \E userId \in Users, token \in DeviceTokens, platform \in DevicePlatforms,
        departmentId \in Departments :
       LET found == findOne(registry, userId, token)
       IN registering' =
            [registering EXCEPT ![c] =
               [pc |-> IF found # {} THEN "update" ELSE "save",
                userId |-> userId, token |-> token, platform |-> platform,
                departmentId |-> departmentId, existing |-> found, outcome |-> ""]]
  /\ UNCHANGED <<cfgVars, last, workerVars, broker, adding, flight>>

\* The branch of an existing row: update, then return.
RegisterUpdate(c) ==
  /\ registering[c].pc = "update"
  /\ LET r == registering[c]
         existing == The(r.existing)
     IN \E platform \in (IF r.platform = "none" THEN {"none", existing.platform}
                         ELSE {r.platform}) :
          registry' = update(registry, existing, clock, platform, r.departmentId)
  /\ registering' = [registering EXCEPT ![c].pc = "done", ![c].outcome = "updated"]
  /\ UNCHANGED <<cfgVars, last, jobs, nextJobId, handler, logs, stalls,
                 clock, broker, adding, flight>>

\* The branch of no row: create and save, then return, or throw what save throws.
RegisterSave(c) ==
  /\ registering[c].pc = "save"
  /\ LET r == registering[c]
         saved == save(registry, CreateDevice(<<c, clock>>, r.userId, r.token,
                                              r.platform, r.departmentId, clock))
     IN /\ registry' = saved.rows
        /\ registering' = [registering EXCEPT
                             ![c].pc = "done",
                             ![c].outcome = IF saved.threw THEN "threw" ELSE "saved"]
  /\ UNCHANGED <<cfgVars, last, jobs, nextJobId, handler, logs, stalls,
                 clock, broker, adding, flight>>

RegistryInit ==
  /\ Configured
  /\ last = NoCall
  /\ NoWorker
  /\ Quiet

RegistryNext ==
  \/ \E c \in Callers : RegisterFind(c)
  \/ \E c \in Callers : RegisterUpdate(c)
  \/ \E c \in Callers : RegisterSave(c)

SpecRegistry == RegistryInit /\ [][RegistryNext]_vars

\* A worker's cleanupInvalidTokens deletes the rows of a token while callers
\* register: deviceRepository.delete({ token: In(invalidTokens) }).
RegistryCleanup ==
  /\ \E token \in RegistryTokens : registry' = DeleteByTokens(registry, <<token>>)
  /\ UNCHANGED <<cfgVars, last, jobs, nextJobId, handler, logs, stalls, extraVars>>

RegistryCleanupNext ==
  \/ RegistryNext
  \/ RegistryCleanup

\* Registration with token cleanup going on.
SpecRegistryCleanup == RegistryInit /\ [][RegistryCleanupNext]_vars

\* The rows of the pair (userId, token) in a devices table.
RowsOfPair(rows, userId, token) ==
  {d \in rows : d.userId = userId /\ d.token = token}

\* A step of the registerToken call of caller c.
C15_Step(c) ==
  LET r == registering[c]
      r2 == registering'[c]
  IN /\ r.pc \in {"idle", "done"} /\ r2.pc \in {"update", "save"} =>
          /\ registry' = registry
          /\ r2.pc = "update" <=> RowsOfPair(registry, r2.userId, r2.token) # {}
     /\ r.pc = "update" /\ r2.pc = "done" =>
          /\ Cardinality(registry') = Cardinality(registry)
          /\ \A d \in registry' :
               IF d.userId = r.userId /\ d.token = r.token
                 THEN /\ d.lastActiveAt = clock
                      /\ \A e \in r.existing : d.lastActiveAt > e.lastActiveAt
                                               /\ d.createdAt = e.createdAt
                      /\ d.departmentId = r.departmentId
                      /\ r.platform # "none" => d.platform = r.platform
                 ELSE d \in registry
     /\ r.pc = "save" /\ r2.pc = "done" =>
          IF RowsOfPair(registry, r.userId, r.token) # {}
            THEN registry' = registry /\ r2.outcome = "threw"
            ELSE /\ Cardinality(registry') = Cardinality(registry) + 1
                 /\ RowsOfPair(registry', r.userId, r.token) # {}

\* C15: the devices table never holds two rows of one (userId, token) pair, and a
\* registerToken call that finds the row of its pair inserts nothing: it sets
\* lastActiveAt of that row to the time of the call, later than the one it found,
\* and platform and departmentId to its arguments.  So registering a pair twice
\* with the same platform and departmentId leaves one row, touched by the
\* second call.
C15_IdempotentRegistration ==
  /\ [](\A userId \in Users, token \in DeviceTokens :
          Cardinality(RowsOfPair(registry, userId, token)) <= 1)
  /\ [][\A c \in Callers : C15_Step(c)]_vars

\* A caller has registered a pair a second time with the platform and the
\* departmentId of the row it found: one row, and its lastActiveAt has moved.
C15_Witness ==
  \E c \in Callers :
    /\ registering[c].pc = "done"
    /\ registering[c].outcome = "updated"
    /\ \E e \in registering[c].existing :
         /\ e.platform = registering[c].platform
         /\ e.departmentId = registering[c].departmentId
         /\ registry = {[e EXCEPT !.lastActiveAt = clock]}
         /\ clock > e.lastActiveAt

----------------------------------------------------------------------------
(* The queue service (specification SpecQueue): queueTimetableNotification,    *)
(* queueCustomNotification and queueAnnouncementNotification against a broker  *)
(* that can be out of reach                                                    *)

MaxWait == 6   \* longest time, in seconds, an add is followed while the broker is out of reach

\* Every provider call for the tokens succeeds.
OkEnv(tokens) == [out |-> AllOk(tokens), thr |-> {}, auth |-> TRUE, boom |-> FALSE]

\* The NotificationJob the three operations build, as the queue holds it.
NotificationJob(type, tokens, platform) ==
  [type |-> type, tokens |-> tokens, platform |-> platform,
   priority |-> IF type = "custom" THEN 2 ELSE 1,
   state |-> "waiting", attemptsMade |-> 0, env |-> OkEnv(tokens)]

\* queue<Type>Notification up to its await: the job is built and handed to
\* queue.add.  The queues are constructed with the host and the port of the broker
\* and the default job options, and nothing else.
QueueNotification ==
  /\ adding.pc \in {"idle", "threw"}
  /\ jobs = <<>>
  /\ \E type \in QueueTypes, tokens \in JobTokenLists, platform \in Platforms :
       adding' = [pc |-> "pending", job |-> NotificationJob(type, tokens, platform),
                  waited |-> 0]
  /\ UNCHANGED <<cfgVars, last, workerVars, clock, registering, broker, flight>>

\* The broker takes the job; add resolves, the operation logs "queued" and returns.
AddResolves ==
  /\ adding.pc = "pending"
  /\ broker = "up"
  /\ jobs' = Append(jobs, adding.job)
  /\ handler' = Append(handler, IdleHandler)
  /\ nextJobId' = nextJobId + 1
  /\ adding' = [adding EXCEPT !.pc = "returned"]
  /\ UNCHANGED <<cfgVars, last, registry, logs, stalls, clock, registering, broker, flight>>

\* A second passes with the broker out of reach.  No timeout is set on the add,
\* on the queue or on the connection, so the await goes on.
AddWaits ==
  /\ adding.pc = "pending"
  /\ broker = "down"
  /\ adding.waited < MaxWait
  /\ adding' = [adding EXCEPT !.waited = @ + 1]
  /\ UNCHANGED <<cfgVars, last, workerVars, clock, registering, broker, flight>>

\* The Redis client gives up; add rejects, and the operation, which has no catch,
\* rejects with the same error.
AddRejects ==
  /\ adding.pc = "pending"
  /\ broker = "down"
  /\ adding' = [adding EXCEPT !.pc = "threw"]
  /\ UNCHANGED <<cfgVars, last, workerVars, clock, registering, broker, flight>>

BrokerFails ==
  /\ broker = "up"
  /\ broker' = "down"
  /\ UNCHANGED <<cfgVars, last, workerVars, clock, registering, adding, flight>>

BrokerRecovers ==
  /\ broker = "down"
  /\ broker' = "up"
  /\ UNCHANGED <<cfgVars, last, workerVars, clock, registering, adding, flight>>

QueueInit ==
  /\ Configured
  /\ last = NoCall
  /\ NoWorker
  /\ clock = 0
  /\ registering = [c \in Callers |-> IdleCall]
  /\ broker \in {"up", "down"}
  /\ adding = NoAdd
  /\ flight = NoFlight

QueueNext ==
  \/ QueueNotification
  \/ AddResolves
  \/ AddWaits
  \/ AddRejects
  \/ BrokerFails
  \/ BrokerRecovers

SpecQueue == QueueInit /\ [][QueueNext]_vars

\* C16: while the broker is out of reach, an enqueue operation has not been
\* waiting for more than 5 seconds: by then it has ended with a failure.
C16_BoundedWait ==
  adding.pc = "pending" /\ broker = "down" => adding.waited <= 5

----------------------------------------------------------------------------
(* The callers of the registry (specification SpecProducer): the helpers of    *)
(* the router that resolve their devices from the registry, and the producers  *)
(* that enqueue jobs; one call, made on some content of the registry, is one   *)
(* step                                                                        *)

MaxRows == 2   \* most rows of the devices table a call is made on

\* The (userId, token) pairs a devices table can hold rows of.
DevicePairs == Users \X DeviceTokens

\* The contents of the devices table: at most one row per (userId, token).
RegistryContents ==
  UNION {{{CreateDevice(k, k[1], k[2], f[k][1], f[k][2], 0) : k \in K} :
            f \in [K -> DevicePlatforms \X Departments]} :
         K \in {P \in SUBSET DevicePairs : Cardinality(P) <= MaxRows}}

\* The orders in which a query can return the rows S.
Orderings(S) ==
  {f \in [1..Cardinality(S) -> S] : \A i, k \in 1..Cardinality(S) : f[i] = f[k] => i = k}

\* deviceRepository.find({ where, select: ['token', 'platform'] }): the rows that
\* match, in some order.
find(matching) ==
  {[k \in 1..Len(f) |-> [token |-> f[k].token, platform |-> f[k].platform]] :
     f \in Orderings(matching)}

\* d.platform || 'android'
OrAndroid(platform) == IF platform = "none" THEN "android" ELSE platform

\* devices.map((d) => ({ token, platform: d.platform || 'android' }))
MapDevices(devices) ==
  [k \in 1..Len(devices) |->
     [token |-> devices[k].token, platform |-> OrAndroid(devices[k].platform)]]

RECURSIVE UniqueFrom(_, _)
\* The loop that fills the uniqueDevices map: the first device of a token is kept.
UniqueFrom(devices, seen) ==
  IF devices = <<>> THEN <<>>
  ELSE IF Head(devices).token \in seen
    THEN UniqueFrom(Tail(devices), seen)
  ELSE <<Head(devices)>> \o UniqueFrom(Tail(devices), seen \cup {Head(devices).token})

uniqueDevices(devices) == UniqueFrom(devices, {})

UserIdLists == {<<>>, <<"u1">>, <<"u2">>, <<"u1", "u2">>}

DepartmentIdLists == {<<>>, <<"d1">>, <<"d2">>, <<"d1", "d2">>}

\* A helper has resolved its device list and returns what sendToDevices returns;
\* on an empty list both return the zero result.
HelperCall(op, deviceList) ==
  [op |-> op, devices |-> deviceList, tokens |-> TokensOf(deviceList),
   platform |-> "", env |-> NoEnv,
   out |-> PushSendToDevices(deviceList, OkEnv(TokensOf(deviceList)))]

CallSendToUsers ==
  /\ last = NoCall
  /\ \E userIds \in UserIdLists :
       \E devices \in find({d \in registry : d.userId \in Range(userIds)}) :
         last' = HelperCall("sendToUsers", MapDevices(devices))
  /\ UNCHANGED <<cfgVars, extraVars, workerVars>>

CallSendToDepartment ==
  /\ last = NoCall
  /\ \E departmentId \in Departments :
       \E devices \in find({d \in registry : d.departmentId = departmentId}) :
         last' = HelperCall("sendToDepartment", MapDevices(devices))
  /\ UNCHANGED <<cfgVars, extraVars, workerVars>>

CallSendToDepartments ==
  /\ last = NoCall
  /\ \E departmentIds \in DepartmentIdLists :
       \E devices \in find({d \in registry : d.departmentId \in Range(departmentIds)}) :
         last' = HelperCall("sendToDepartments", uniqueDevices(MapDevices(devices)))
  /\ UNCHANGED <<cfgVars, extraVars, workerVars>>

CallSendToAll ==
  /\ last = NoCall
  /\ \E devices \in find(registry) :
       last' = HelperCall("sendToAll", uniqueDevices(MapDevices(devices)))
  /\ UNCHANGED <<cfgVars, extraVars, workerVars>>

\* The tokens of the devices a producer puts in its job of platform p: ios in the
\* ios job, every other device in the android job.
GroupTokens(devices, p) ==
  LET group == SelectSeq(devices, LAMBDA d : (OrAndroid(d.platform) = "ios") <=> (p = "ios"))
  IN [k \in 1..Len(group) |-> group[k].token]

\* Variant: a producer that enqueues the android job before the ios job.
ProducerJobsAndroidFirst(type, devices) ==
  (IF Len(GroupTokens(devices, "android")) > 0
     THEN <<NotificationJob(type, GroupTokens(devices, "android"), "android")>>
     ELSE <<>>)
  \o (IF Len(GroupTokens(devices, "ios")) > 0
        THEN <<NotificationJob(type, GroupTokens(devices, "ios"), "ios")>> ELSE <<>>)

\* The jobs a producer enqueues for its devices, in the order of its awaits.
ProducerJobs(type, devices) ==
  (IF Len(GroupTokens(devices, "ios")) > 0
     THEN <<NotificationJob(type, GroupTokens(devices, "ios"), "ios")>> ELSE <<>>)
  \o (IF Len(GroupTokens(devices, "android")) > 0
        THEN <<NotificationJob(type, GroupTokens(devices, "android"), "android")>>
        ELSE <<>>)

\* What a producer resolves with: the counts, or nothing when it rejects.
NoAck == [deliveredTo |-> -1, failedCount |-> -1, totalDevices |-> -1]

\* A producer enqueues its jobs one after the other; an enqueue that rejects ends
\* the producer with that error (raised), the jobs before it staying in their
\* queue.  After its last enqueue the producer returns its acknowledgment (ack).
Produce(op, type, devices) ==
  /\ last = NoCall
  /\ \E accepted \in 0..Len(ProducerJobs(type, devices)) :
       /\ jobs' = jobs \o SubSeq(ProducerJobs(type, devices), 1, accepted)
       /\ handler' = handler \o [k \in 1..accepted |-> IdleHandler]
       /\ nextJobId' = nextJobId + accepted
       /\ last' = [op |-> op, devices |-> devices, tokens |-> TokensOf(devices),
                   platform |-> "", env |-> NoEnv, out |-> NoRouter,
                   raised |-> accepted < Len(ProducerJobs(type, devices)),
                   ack |-> IF accepted < Len(ProducerJobs(type, devices)) THEN NoAck
                           ELSE [deliveredTo |-> 0, failedCount |-> 0,
                                 totalDevices |-> Len(devices)]]
  /\ UNCHANGED <<cfgVars, extraVars, registry, logs, stalls>>

CallSendTimetableNotification ==
  \E departmentId \in Departments :
    \E devices \in find({d \in registry : d.departmentId = departmentId}) :
      Produce("sendTimetableNotification", "timetable", devices)

\* The devices of a target: 'all', or a list of departments.
Targets ==
  {[all |-> TRUE, departmentIds |-> <<>>]}
  \cup {[all |-> FALSE, departmentIds |-> ids] : ids \in DepartmentIdLists}

Targeted(target) ==
  IF target.all THEN registry
  ELSE {d \in registry : d.departmentId \in Range(target.departmentIds)}

CallSendCustomNotification ==
  \E target \in Targets : \E devices \in find(Targeted(target)) :
    Produce("sendCustomNotification", "custom", uniqueDevices(devices))

CallSendAnnouncementNotification ==
  \E target \in Targets : \E devices \in find(Targeted(target)) :
    Produce("sendAnnouncementNotification", "announcement", uniqueDevices(devices))

ProducerInit ==
  /\ Configured
  /\ last = NoCall
  /\ jobs = <<>>
  /\ nextJobId = 1
  /\ handler = <<>>
  /\ registry \in RegistryContents
  /\ logs = <<>>
  /\ stalls = 0
  /\ Quiet

ProducerNext ==
  \/ CallSendToUsers
  \/ CallSendToDepartment
  \/ CallSendToDepartments
  \/ CallSendToAll
  \/ CallSendTimetableNotification
  \/ CallSendCustomNotification
  \/ CallSendAnnouncementNotification

SpecProducer == ProducerInit /\ [][ProducerNext]_vars

Helpers == {"sendToUsers", "sendToDepartment", "sendToDepartments", "sendToAll"}

\* C17: the device list a helper hands to sendToDevices holds no token twice.
C17_HelpersDeduplicate ==
  last.op \in Helpers =>
    \A i, k \in 1..Len(last.devices) :
      last.devices[i].token = last.devices[k].token => i = k

\* C18: every token of a job a producer has placed in a queue is the token of a
\* row of the devices table whose platform is the platform of the job.
C18_PlatformHomogeneous ==
  \A j \in DOMAIN jobs : \A k \in 1..Len(jobs[j].tokens) :
    \E d \in registry : d.token = jobs[j].tokens[k] /\ d.platform = jobs[j].platform

----------------------------------------------------------------------------
(* Order and failure of the steps of an attempt (specification Spec) *)

\* A step of the handler of job j around its cleanup.
C21_Step(j) ==
  LET h == handler[j]
      h2 == handler'[j]
  IN /\ h.pc = "send" /\ h2.pc \notin {"send", "idle"} =>
          h2.pc = IF Len(h2.allInvalidTokens) > 0 THEN "cleanup" ELSE "log"
     /\ h2.pc = "log" /\ h.pc # "log" /\ Len(h2.allInvalidTokens) > 0 =>
          /\ h.pc = "cleanup"
          /\ h2.allInvalidTokens = h.allInvalidTokens
          /\ logs' = logs
          /\ registry' = IF h2.deleteThrew THEN registry
                          ELSE DeleteByTokens(registry, h.allInvalidTokens)
     /\ h.pc = "cleanup" /\ h2 # h => h2.pc \in {"log", "idle"}
     /\ logs' # logs => h.pc \in {"log", "catch"}
     /\ h2.pc = "catch" /\ h.pc # "catch" => h.pc = "log"

\* C21: in an attempt that collected an invalid token, the removal from the
\* Device Registry is invoked after the send and before the Delivery Log write
\* is attempted: the handler reaches its log write only through the cleanup, no
\* log row is written before it, and so the cleanup has run whenever a log
\* write succeeds or throws.
C21_CleanupBeforeLog ==
  /\ [](\A j \in DOMAIN jobs :
          /\ handler[j].pc \in {"log", "resolved", "catch"}
          /\ Len(handler[j].allInvalidTokens) > 0
          /\ ~handler[j].deleteThrew
          => RegistryTokens \cap Range(handler[j].allInvalidTokens) = {})
  /\ [][\A j \in DOMAIN jobs : C21_Step(j)]_vars

\* The log write of an attempt has thrown after the cleanup of the attempt has
\* removed its invalid token from the registry.
C21_Witness ==
  \E j \in DOMAIN jobs :
    /\ handler[j].pc = "catch"
    /\ Len(handler[j].allInvalidTokens) > 0
    /\ ~handler[j].deleteThrew
    /\ RegistryTokens \cap Range(handler[j].allInvalidTokens) = {}
    /\ Range(handler[j].allInvalidTokens) \subseteq {d.token : d \in InitialRegistry}

\* What the router returns for the tokens of job j.
RouterResult(j) == PushSendToTokens(jobs[j].tokens, jobs[j].platform, jobs[j].env).ret

\* A step of the handler of job j from its cleanup on.
C22_Step(j) ==
  LET h == handler[j]
      h2 == handler'[j]
  IN /\ h.pc = "cleanup" /\ h2 # h /\ jobs'[j].state = "active" =>
          /\ h2.pc = "log"
          /\ h2.totalDelivered = h.totalDelivered /\ h2.totalFailed = h.totalFailed
          /\ h2.deleteThrew => registry' = registry
     /\ h.pc = "log" /\ h2.pc = "resolved" =>
          logs' = Append(logs, LogRow(j, jobs[j].type, Len(jobs[j].tokens),
                                      RouterResult(j).deliveredTo,
                                      RouterResult(j).failedCount,
                                      Len(RouterResult(j).invalidTokens), FALSE))
     /\ h.pc = "resolved" /\ h2.pc = "done" => jobs'[j].state = "completed"
     /\ jobs'[j].state \in {"delayed", "failed"} /\ jobs[j].state = "active" =>
          h.pc = "catch"
     /\ h2.pc = "catch" /\ h.pc # "catch" => h.pc = "log"

\* C22: a delete that throws in cleanupInvalidTokens leaves the registry as it
\* was and does not fail the attempt: the handler goes on to its Delivery Log
\* write with the delivered and failed counts of the send, and the job is
\* Completed once that write has succeeded.  cleanupInvalidTokens never rejects,
\* and called with an empty list it issues no delete and changes no row.
C22_CleanupFailureNotFatal ==
  /\ [](last.op = "cleanupInvalidTokens" =>
          /\ ~last.raised
          /\ last.deleteThrew => registry = InitialRegistry
          /\ last.tokens = <<>> => last.deletes = 0 /\ registry = InitialRegistry
          /\ last.tokens # <<>> => last.deletes = 1
          /\ last.tokens # <<>> /\ ~last.deleteThrew =>
               registry = DeleteByTokens(InitialRegistry, last.tokens))
  /\ [][\A j \in DOMAIN jobs : C22_Step(j)]_vars

\* A job is Completed on its first attempt although the delete of its cleanup
\* threw: its log row has the counts of the send, and the registry is untouched.
C22_Witness ==
  \E j \in DOMAIN jobs :
    /\ jobs[j].state = "completed"
    /\ jobs[j].attemptsMade = 0
    /\ stalls = 0
    /\ handler[j].deleteThrew
    /\ registry = InitialRegistry
    /\ Len(logs) = 1
    /\ logs[1].failedCount = RouterResult(j).failedCount
    /\ logs[1].invalidTokens > 0
    /\ ~logs[1].error

----------------------------------------------------------------------------
(* Further properties of the provider clients (specification SpecRouter) *)

InvalidCodes == {"invalid_token", "unregistered_token"}

\* The tokens of the failed results of ret that carry an invalid-token code, in
\* the order of the results.
InvalidOf(ret) ==
  LET IsInvalid(r) == ~r.success /\ r.code \in InvalidCodes
      picked == SelectSeq(ret.results, IsInvalid)
  IN [k \in 1..Len(picked) |-> picked[k].token]

\* C23: what a provider client returns as invalidTokens is exactly the tokens of
\* its failed results with code invalid_token or unregistered_token, and these
\* are the tokens the provider answered with 410 (APNs), 404 (FCM v1) or
\* NotRegistered (FCM legacy); a token failed with any other code is not in it.
C23_InvalidTokensExact ==
  last.op \in {"apns", "fcm"} /\ ~last.out.clientThrew =>
    LET ret == last.out.ret
    IN /\ ret.invalidTokens = InvalidOf(ret)
       /\ \A k \in 1..Len(ret.results) :
            (~ret.results[k].success /\ ret.results[k].code \in InvalidCodes) =>
              last.env.out[ret.results[k].token] = "gone"
       /\ \A k \in 1..Len(ret.results) :
            ret.results[k].code \in {"bad_request", "forbidden", "too_many_requests",
                                     "server_error", "batch_error", "unknown_error",
                                     "apns_not_configured", "fcm_not_configured"} =>
              ret.results[k].token \notin Range(ret.invalidTokens)

\* An FCM v1 call of three tokens answered 404, 400 and 429: the first one alone
\* is in invalidTokens.
C23_Witness ==
  /\ last.op = "fcm" /\ fcmConfig = "v1"
  /\ last.tokens = Iota(MaxDevices)
  /\ last.env.out[1] = "gone" /\ last.env.out[2] = "bad"
  /\ last.out.ret.failedCount = Len(last.tokens)
  /\ last.out.ret.invalidTokens = <<1>>

\* The HTTP statuses that decide the code of a v1 error alone.
ListedStatus(status) == status \in {400, 401, 403, 404, 429} \/ status >= 500

\* The names a legacy reason is searched for.
LegacyNames == {"InvalidRegistration", "NotRegistered", "MismatchSenderId", "InvalidPackageName"}

\* C24: a v1 error is classified by its HTTP status alone when the status is
\* 400, 401, 403, 404, 429 or at least 500, and by the body status only
\* otherwise; a legacy reason that is one of the four names is classified as
\* that name, and a reason with none of them as unknown_error.
C24_ErrorClassification ==
  /\ last.op = "mapFCMErrorCode" =>
       /\ last.status = 400 => last.code = "bad_request"
       /\ last.status = 401 => last.code = "unauthorized"
       /\ last.status = 403 => last.code = "forbidden"
       /\ last.status = 404 => last.code = "invalid_token"
       /\ last.status = 429 => last.code = "too_many_requests"
       /\ last.status >= 500 => last.code = "server_error"
       /\ ~ListedStatus(last.status) =>
            last.code = CASE last.errorCode = "INVALID_ARGUMENT" -> "invalid_token"
                          [] last.errorCode = "NOT_FOUND" -> "unregistered_token"
                          [] last.errorCode = "PERMISSION_DENIED" -> "forbidden"
                          [] last.errorCode = "UNAUTHENTICATED" -> "unauthorized"
                          [] last.errorCode = "RESOURCE_EXHAUSTED" -> "too_many_requests"
                          [] OTHER -> "unknown_error"
  /\ last.op = "mapLegacyFCMErrorCode" =>
       /\ last.errorMessage = <<"InvalidRegistration">> => last.code = "invalid_token"
       /\ last.errorMessage = <<"NotRegistered">> => last.code = "unregistered_token"
       /\ last.errorMessage = <<"MismatchSenderId">> => last.code = "forbidden"
       /\ last.errorMessage = <<"InvalidPackageName">> => last.code = "bad_request"
       /\ Range(last.errorMessage) \cap LegacyNames = {} => last.code = "unknown_error"

\* A v1 error with HTTP status 404 and body status NOT_FOUND is classified by the
\* HTTP status: invalid_token, not the unregistered_token of the body.
C24_Witness ==
  /\ last.op = "mapFCMErrorCode"
  /\ last.status = 404
  /\ last.errorCode = "NOT_FOUND"
  /\ last.code = "invalid_token"

----------------------------------------------------------------------------
(* The chunk loop of a provider client, send by send (specification            *)
(* SpecFlight): a chunk starts its sends, the sends settle one by one in any    *)
(* order, and the await of the loop resumes when the last one has settled.      *)
(* The sends of a chunk differ only in their token, so they are counted.        *)

\* The lengths of the token lists of the calls followed.
FlightLengths == (1..MaxDevices) \cup {Len(ts) : ts \in BigTokenLists}

\* Variant: a loop that does not wait for the sends of its chunk.
resumeWithoutAwait(pending) == "loop"

\* await provider.send(...) / await Promise.allSettled(...): the loop goes on when
\* no send of the chunk is unsettled.
resumeAfterAwait(pending) == IF pending = 0 THEN "loop" ELSE "await"

\* sendToTokens of a configured client is called with n tokens.
FlightCall ==
  /\ flight = NoFlight
  /\ \E client \in {"apns", "fcm"}, n \in FlightLengths :
       flight' = [pc |-> "loop", client |-> client, n |-> n, i |-> 0, chunk |-> 0,
                  pending |-> 0, requests |-> 0]
  /\ UNCHANGED <<cfgVars, last, workerVars, clock, registering, broker, adding>>

\* An iteration of the loop up to its await: the batch is sliced and its sends
\* are started, one provider.send for the chunk (APNs) or one send per token (FCM).
\* requests counts the tokens whose provider request is not settled.
StartChunk ==
  /\ flight.pc = "loop"
  /\ flight.i < flight.n
  /\ LET len == Min(batchSize, flight.n - flight.i)
     IN flight' = [flight EXCEPT
                     !.pc = "await",
                     !.chunk = @ + 1,
                     !.i = @ + batchSize,
                     !.pending = @ + (IF flight.client = "apns" THEN 1 ELSE len),
                     !.requests = @ + len]
  /\ UNCHANGED <<cfgVars, last, workerVars, clock, registering, broker, adding>>

\* A send settles (fulfils or rejects); after the last one of the chunk the loop
\* goes through the results and on to its next iteration.
Settle ==
  /\ flight.pc \in {"await", "loop"}
  /\ flight.pending > 0
  /\ LET left == flight.pending - 1
     IN flight' = [flight EXCEPT
                     !.pending = left,
                     !.requests = IF flight.client = "apns" THEN 0 ELSE @ - 1,
                     !.pc = IF flight.pc = "await" THEN resumeAfterAwait(left) ELSE @]
  /\ UNCHANGED <<cfgVars, last, workerVars, clock, registering, broker, adding>>

\* The loop has gone through the tokens: the client returns.
FlightReturn ==
  /\ flight.pc = "loop"
  /\ flight.i >= flight.n
  /\ flight' = [flight EXCEPT !.pc = "returned"]
  /\ UNCHANGED <<cfgVars, last, workerVars, clock, registering, broker, adding>>

FlightInit ==
  /\ Configured
  /\ last = NoCall
  /\ NoWorker
  /\ Quiet

FlightNext ==
  \/ FlightCall
  \/ StartChunk
  \/ Settle
  \/ FlightReturn

SpecFlight == FlightInit /\ [][FlightNext]_vars

\* C25: a chunk starts only when no send of an earlier chunk is unsettled, its
\* sends start together, the client returns only when every send has settled,
\* and so no more than 500 provider requests of a call are in flight.
C25_ChunksOneAfterAnother ==
  /\ [](flight.pc # "idle" =>
          /\ flight.requests <= batchSize
          /\ flight.pc \in {"loop", "returned"} => flight.pending = 0
          /\ flight.pending <= (IF flight.client = "apns" THEN 1 ELSE batchSize))
  /\ [][flight.pc # "idle" /\ flight'.chunk # flight.chunk =>
          /\ flight.pending = 0 /\ flight.requests = 0
          /\ flight'.chunk = flight.chunk + 1
          /\ flight'.requests = Min(batchSize, flight.n - batchSize * flight.chunk)]_vars

\* The second chunk of an FCM call of 600 tokens is in flight: 100 sends, started
\* after the 500 of the first chunk have settled.
C25_Witness ==
  /\ flight.pc = "await"
  /\ flight.client = "fcm"
  /\ flight.n = batchSize + 100
  /\ flight.chunk = 2
  /\ flight.pending = 100

----------------------------------------------------------------------------
(* Registration against cleanup (specification SpecRegistryCleanup) *)

\* A step of the registerToken call of caller c with cleanup going on.
C27_Step(c) ==
  LET r == registering[c]
      r2 == registering'[c]
  IN /\ r.pc = "save" /\ r2.pc = "done" =>
          IF RowsOfPair(registry, r.userId, r.token) # {}
            THEN registry' = registry /\ r2.outcome = "threw"
            ELSE /\ r2.outcome = "saved"
                 /\ registry \subseteq registry'
                 /\ Cardinality(RowsOfPair(registry', r.userId, r.token)) = 1
     /\ r.pc = "update" /\ r2.pc = "done" =>
          /\ {d.id : d \in registry'} = {d.id : d \in registry}
          /\ r2.outcome = "updated"

\* C27: whatever the interleaving of registerToken calls and token cleanup, the
\* devices table never holds two rows of one (userId, token) pair; a save that
\* finds the pair in the table, another call having inserted it since the
\* findOne, changes no row and throws to its caller; and an update inserts no
\* row.
C27_NoDuplicatePair ==
  /\ [](\A userId \in Users, token \in DeviceTokens :
          Cardinality(RowsOfPair(registry, userId, token)) <= 1)
  /\ [][\A c \in Callers : C27_Step(c)]_vars

\* Two callers have raced for one new pair: one has inserted the row, the save of
\* the other has thrown, and the table holds the one row.
C27_Witness ==
  \E c, d \in Callers :
    /\ registering[c].pc = "done" /\ registering[c].outcome = "saved"
    /\ registering[d].pc = "done" /\ registering[d].outcome = "threw"
    /\ registering[c].existing = {} /\ registering[d].existing = {}
    /\ registering[c].userId = registering[d].userId
    /\ registering[c].token = registering[d].token
    /\ Cardinality(RowsOfPair(registry, registering[c].userId, registering[c].token)) = 1

----------------------------------------------------------------------------
(* The attempt whose success-path log write throws (specification Spec) *)

\* A step of the handler of job j from its success-path log write on.
C28_Step(j) ==
  LET h == handler[j]
      h2 == handler'[j]
  IN /\ h.pc = "log" /\ h2 # h /\ jobs'[j].state # "waiting" =>
          \/ h2.pc = "resolved"
          \/ /\ h2 = [h EXCEPT !.pc = "catch"]
             /\ logs' = logs /\ registry' = registry /\ jobs' = jobs
     /\ h.pc = "catch" /\ h2 # h /\ jobs'[j].state # "waiting" =>
          /\ h2 = [h EXCEPT !.pc = "done"]
          /\ logs' \in {logs, Append(logs, FailureRow(j))}
          /\ registry' = registry
          /\ jobs'[j] = [jobs[j] EXCEPT
                           !.attemptsMade = @ + 1,
                           !.state = IF jobs[j].attemptsMade + 1 < attempts
                                       THEN "delayed" ELSE "failed"]

\* C28: when the Delivery Log write of the success path throws, the handler
\* enters its catch block with no row written; there it writes the failure row
\* (deliveredTo = 0, failedCount = totalDevices, the error) unless that write
\* throws too, and rejects, so that the attempt is counted and the job is delayed
\* for a retry while attempts remain.  In the catch block the sends of the
\* attempt have been made, and the rows of its invalid tokens are gone from the
\* registry unless the delete threw.
C28_LogWriteFailure ==
  /\ [](\A j \in DOMAIN jobs :
          handler[j].pc = "catch" =>
            /\ jobs[j].state = "active"
            /\ handler[j].totalDelivered = RouterResult(j).deliveredTo
            /\ handler[j].totalFailed = RouterResult(j).failedCount
            /\ handler[j].allInvalidTokens = RouterResult(j).invalidTokens
            /\ handler[j].calls =
                 PushSendToTokens(jobs[j].tokens, jobs[j].platform, jobs[j].env).calls
            /\ ~handler[j].deleteThrew =>
                 \A d \in registry : d.token \notin Range(handler[j].allInvalidTokens))
  /\ [][\A j \in DOMAIN jobs : C28_Step(j)]_vars

\* The first attempt of a job delivered to one token and removed the row of the
\* other; its log write threw, the failure row is the only row, and the job
\* waits for its retry.
C28_Witness ==
  \E j \in DOMAIN jobs :
    /\ jobs[j].state = "delayed" /\ jobs[j].attemptsMade = 1
    /\ stalls = 0
    /\ handler[j].pc = "done"
    /\ handler[j].totalDelivered = 1
    /\ handler[j].calls > 0
    /\ Len(handler[j].allInvalidTokens) = 1
    /\ ~handler[j].deleteThrew
    /\ registry = DeleteByTokens(InitialRegistry, handler[j].allInvalidTokens)
    /\ registry # InitialRegistry
    /\ logs = <<FailureRow(j)>>

----------------------------------------------------------------------------
(* Retries send again (specification Spec) *)

\* A step of job j and of its handler, in any attempt.
C29_Step(j) ==
  LET sent == PushSendToTokens(jobs[j].tokens, jobs[j].platform, jobs[j].env)
  IN /\ jobs'[j].tokens = jobs[j].tokens
     /\ jobs'[j].platform = jobs[j].platform
     /\ jobs[j].state = "waiting" /\ jobs'[j].state = "active" =>
          handler'[j] = [IdleHandler EXCEPT !.pc = "send"]
     /\ handler[j].pc = "send" /\ handler'[j].pc \notin {"send", "idle"} =>
          /\ Len(sent.ret.results) = Len(jobs[j].tokens)
          /\ {sent.ret.results[k].token : k \in 1..Len(sent.ret.results)}
               = Range(jobs[j].tokens)
          /\ handler'[j].calls = sent.calls
          /\ handler'[j].totalDelivered = sent.ret.deliveredTo
          /\ handler'[j].totalFailed = sent.ret.failedCount
          /\ handler'[j].allInvalidTokens = sent.ret.invalidTokens

\* C29: every attempt of a job, the first or a retry, starts from fresh locals
\* and hands all the tokens of the job to the router: the totals after the send
\* are those of a send of the whole token list, whatever earlier attempts
\* delivered.  The tokens of a job never change, and a job is attempted at most
\* `attempts` times, stalled attempts aside.
C29_RetrySendsAll ==
  /\ [](\A j \in DOMAIN jobs : jobs[j].attemptsMade <= attempts)
  /\ [][\A j \in DOMAIN jobs : C29_Step(j)]_vars

\* The first attempt of a job delivered to both its tokens and rejected on its
\* log write; the retry has delivered to both tokens again.
C29_Witness ==
  \E j \in DOMAIN jobs :
    /\ jobs[j].state = "active" /\ jobs[j].attemptsMade = 1
    /\ stalls = 0
    /\ Len(jobs[j].tokens) = 2
    /\ logs = <<FailureRow(j)>>
    /\ handler[j].pc = "log"
    /\ handler[j].totalDelivered = 2
    /\ handler[j].calls > 0

----------------------------------------------------------------------------
(* Producers that target both platforms (specification SpecProducer) *)

ProducerTypes ==
  [sendTimetableNotification |-> "timetable", sendCustomNotification |-> "custom",
   sendAnnouncementNotification |-> "announcement"]

\* C30: a producer enqueues the ios job, if it has ios tokens, and then the
\* android job, if it has android tokens.  When it rejects, it returns no
\* acknowledgment and the queues hold nothing of the call, or, the android
\* enqueue having failed, the ios job alone; when it resolves, the queues hold
\* every job of the call and the acknowledgment is deliveredTo = 0,
\* failedCount = 0, totalDevices = the number of devices.
C30_EnqueueNotAtomic ==
  last.op \in DOMAIN ProducerTypes =>
    LET type == ProducerTypes[last.op]
        ios == GroupTokens(last.devices, "ios")
        android == GroupTokens(last.devices, "android")
        iosJob == IF Len(ios) > 0 THEN <<NotificationJob(type, ios, "ios")>> ELSE <<>>
        androidJob == IF Len(android) > 0
                        THEN <<NotificationJob(type, android, "android")>> ELSE <<>>
    IN IF last.raised
         THEN /\ last.ack = NoAck
              /\ \/ jobs = <<>>
                 \/ jobs = iosJob /\ Len(android) > 0
         ELSE /\ jobs = iosJob \o androidJob
              /\ last.ack = [deliveredTo |-> 0, failedCount |-> 0,
                             totalDevices |-> Len(last.devices)]

\* A producer with ios and android devices has rejected on its android enqueue:
\* the ios job is in its queue and the caller has the error.
C30_Witness ==
  /\ last.op \in DOMAIN ProducerTypes
  /\ last.raised
  /\ Len(GroupTokens(last.devices, "android")) > 0
  /\ Len(jobs) = 1
  /\ jobs[1].platform = "ios"
  /\ jobs[1].tokens = GroupTokens(last.devices, "ios")

====
